---- MODULE Spec2Model ----
(***************************************************************************)
(* Model of fdb-otel-exporter: the log directory watcher, the per-file     *)
(* tailer, handle_log_line with the process counters, and the metric       *)
(* registry (LogMetrics) with its recorders.                               *)
(***************************************************************************)
EXTENDS Integers, Sequences, FiniteSets, TLC

VARIABLES
    present,            \* regular files currently listed in the log directory
    tailed,             \* run_log_directory: `tailed` HashSet<PathBuf>
    spawned,            \* number of tail tasks spawned per path
    tailers,            \* per path: position of run_log_tailer, its reader and line buffer
    file,               \* per path: the lines of the file, in order (append-only)
    gone,               \* paths that left the listing after they were inserted into `tailed`
    relisted,           \* paths of `gone` that a later successful listing contained again
    handed,             \* per path: indexes of the lines passed to handle_log_line, in call order
    lastSeek,           \* per path: file length at the latest successful seek_to_end (-1: none yet)
    processed_events,   \* ExporterMetrics.processed_events
    parse_errors,       \* ExporterMetrics.parse_errors
    record_errors,      \* ExporterMetrics.record_errors
    metrics,            \* LogMetrics.metrics: the ordered recorders
    inst,               \* the instruments behind the recorders, and the smoothing windows
    event,              \* the last event handed to LogMetrics::record
    result,             \* what that call returned
    calls,              \* the recorders that call invoked, in order
    records,            \* number of record calls driven directly
    samples,            \* the samples given to a smoothing recorder, in arrival order,
                        \* each with the value the gauge was set to
    interp,             \* a bucket list, total count and divisor, and what the
                        \* interpolator returned for the percentiles asked of them
    config,             \* the gauge config file and what read_gauge_config_file
                        \* returned for it
    watcher,            \* where watch_logs is, whether the log directory exists,
                        \* its subdirectories, the failed listings and the
                        \* failed opens, seeks and reads so far
    app,                \* the process environment and what AppConfig::from_env
                        \* made of it
    recording           \* tail tasks inside record of one smoothing recorder:
                        \* the holder of its mutex, where each task is, and the
                        \* locked blocks in the order the mutex was taken

vars == <<present, tailed, spawned, tailers, file, gone, relisted, handed, lastSeek,
          processed_events, parse_errors, record_errors, metrics, inst,
          event, result, calls, records, samples, interp, config, watcher, app, recording>>

\* ------------------------------------------------------------------ bounds
MaxLines == 2
MaxRecords == 1
MaxSamples == 3
MaxPercentiles == 2
MaxSections == 2
MaxEntries == 2
MaxFaults == 2
MaxFields == 2
MaxCalls == 2

\* ------------------------------------------------------------- Option/Result
None == <<>>
Some(x) == <<x>>
IsSome(o) == Len(o) = 1
Unwrap(o) == o[1]

Ok == [ok |-> TRUE, err |-> ""]
Err(msg) == [ok |-> FALSE, err |-> msg]

\* ------------------------------------------------------------ JSON values
\* serde_json::Value: a string, some other JSON value, or no entry under the key.
Absent == [t |-> "absent", s |-> ""]
Str(s) == [t |-> "str", s |-> s]
Num(s) == [t |-> "num", s |-> s]

\* the keys of histogram buckets the model's events can carry
LessThanKeys == {"LessThan2", "LessThan3", "LessThan4", "LessThan8"}

Fields == {"Machine", "Roles", "Type", "Severity", "Time", "Version",
           "Elapsed", "Group", "Op", "Unit", "TotalCount", "Duration", "BytesInput"}
          \cup LessThanKeys

\* HashMap::get
get(trace_event, key) ==
    IF trace_event[key].t = "absent" THEN None ELSE Some(trace_event[key])

\* Value::as_str
as_str(value) == IF value.t = "str" THEN Some(value.s) ELSE None

\* Option::and_then(|v| v.as_str())
get_str(trace_event, key) ==
    IF IsSome(get(trace_event, key)) THEN as_str(Unwrap(get(trace_event, key))) ELSE None

\* str::parse::<u64> on the texts the model uses
parse_u64(s) ==
    CASE s = "0" -> Some(0)
      [] s = "1" -> Some(1)
      [] s = "2" -> Some(2)
      [] s = "3" -> Some(3)
      [] s = "4" -> Some(4)
      [] s = "5" -> Some(5)
      [] s = "7" -> Some(7)
      [] s = "8" -> Some(8)
      [] s = "10" -> Some(10)
      [] s = "20" -> Some(20)
      [] s = "30" -> Some(30)
      [] s = "40" -> Some(40)
      [] s = "84" -> Some(84)
      [] s = "85" -> Some(85)
      [] s = "100" -> Some(100)
      [] s = "101" -> Some(101)
      [] s = "115" -> Some(115)
      [] s = "116" -> Some(116)
      [] OTHER -> None

\* str::parse::<f64> on the texts the model uses; a float is a fraction [n, d]
parse_f64(s) ==
    CASE s = "0.25" -> Some([n |-> 1, d |-> 4])
      [] s = "0.5" -> Some([n |-> 1, d |-> 2])
      [] s = "1.5" -> Some([n |-> 3, d |-> 2])
      [] IsSome(parse_u64(s)) -> Some([n |-> Unwrap(parse_u64(s)), d |-> 1])
      [] OTHER -> None

\* str::split(' ') on the texts the model uses
split_space(s) ==
    CASE s = "1 2 3" -> <<"1", "2", "3">>
      [] s = "1 2" -> <<"1", "2">>
      [] s = "1  2 3" -> <<"1", "", "2", "3">>
      [] s = "7 8" -> <<"7", "8">>
      [] s = "5 0 0" -> <<"5", "0", "0">>
      [] s = "10 0 0" -> <<"10", "0", "0">>
      [] s = "abc 2 3" -> <<"abc", "2", "3">>
      [] s = "" -> <<"">>
      [] OTHER -> <<s>>

\* Iterator::nth (0-based)
nth(seq, k) == IF k + 1 <= Len(seq) THEN Some(seq[k + 1]) ELSE None

\* ------------------------------------------------------------------ floats
\* An f64 is modelled as the fraction n/d; d = 0 stands for a non-finite value.
F(k) == [n |-> k, d |-> 1]
FAdd(a, b) == [n |-> a.n * b.d + b.n * a.d, d |-> a.d * b.d]
FSub(a, b) == [n |-> a.n * b.d - b.n * a.d, d |-> a.d * b.d]
FDiv(a, b) == [n |-> a.n * b.d, d |-> a.d * b.n]
FGt(a, b) == a.n * b.d > b.n * a.d
FEq(a, b) == a.n * b.d = b.n * a.d

ROLLING_WINDOW_SECONDS == 15

\* ------------------------------------------------------------------ labels
KeyValue(k, v) == [k |-> k, v |-> v]

\* byte order of the label names and values the model uses (str::cmp)
StrRank(s) ==
    CASE s = "Roles" -> 1
      [] s = "m1" -> 2
      [] s = "m2" -> 3
      [] s = "machine" -> 4
      [] s = "storage" -> 5
      [] OTHER -> 0

\* the comparator of entries.sort_by: a.0.cmp(&b.0).then(a.1.cmp(&b.1))
EntryLess(a, b) ==
    \/ StrRank(a.k) < StrRank(b.k)
    \/ StrRank(a.k) = StrRank(b.k) /\ StrRank(a.v) < StrRank(b.v)

RECURSIVE SortInsert(_, _)
SortInsert(sorted, e) ==
    IF sorted = <<>> THEN <<e>>
    ELSE IF EntryLess(e, Head(sorted)) THEN <<e>> \o sorted
    ELSE <<Head(sorted)>> \o SortInsert(Tail(sorted), e)

RECURSIVE SortEntries(_)
SortEntries(entries) ==
    IF entries = <<>> THEN <<>>
    ELSE SortInsert(SortEntries(SubSeq(entries, 1, Len(entries) - 1)), entries[Len(entries)])

\* a key that keeps the labels in the order given
from_labels_unsorted(labels) == labels

\* LabelKey::from_labels
from_labels(labels) == SortEntries(labels)

\* ------------------------------------------------------------- instruments
\* HashMap / instrument storage: a function whose domain grows on first write.
EmptyMap == [x \in {} |-> 0]
Put(m, k, v) == [x \in (DOMAIN m) \cup {k} |-> IF x = k THEN v ELSE m[x]]
GetOr(m, k, default) == IF k \in DOMAIN m THEN m[k] ELSE default

\* counter: Counter<u64> values per (instrument, labels); gauge: last Gauge<f64>
\* value per (recorder, labels); windows: `samples` per (recorder, LabelKey).
EmptyInst == [counter |-> EmptyMap, gauge |-> EmptyMap, windows |-> EmptyMap]

\* Counter::add(1, labels)
CounterAdd(st, name, labels) ==
    [st EXCEPT !.counter = Put(st.counter, <<name, labels>>,
                               GetOr(st.counter, <<name, labels>>, 0) + 1)]

\* Gauge::record(value, labels)
GaugeRecord(st, i, value, labels) ==
    [st EXCEPT !.gauge = Put(st.gauge, <<i, labels>>, value)]

\* ---------------------------------------------------------------- recorders
NoRecorder == [kind |-> "", trace_type |-> "", field_name |-> "", group |-> "",
               op |-> "", percentile |-> F(0), severity |-> 0, threshold_ms |-> 0]
SimpleFDBGauge(trace_type, field_name) ==
    [NoRecorder EXCEPT !.kind = "Simple", !.trace_type = trace_type, !.field_name = field_name]
TotalCounterFDBGauge(trace_type, field_name) ==
    [NoRecorder EXCEPT !.kind = "TotalCounter", !.trace_type = trace_type, !.field_name = field_name]
RateCounterFDBGauge(trace_type, field_name) ==
    [NoRecorder EXCEPT !.kind = "RateCounter", !.trace_type = trace_type, !.field_name = field_name]
ElapsedRateFDBGauge(trace_type, field_name) ==
    [NoRecorder EXCEPT !.kind = "ElapsedRate", !.trace_type = trace_type, !.field_name = field_name]
HistogramPercentileFDBGauge(group, op, percentile) ==
    [NoRecorder EXCEPT !.kind = "Histogram", !.group = group, !.op = op, !.percentile = percentile]
SevCounter(severity) ==
    [NoRecorder EXCEPT !.kind = "Sev", !.severity = severity]
SlowTaskCounter(threshold_ms) ==
    [NoRecorder EXCEPT !.kind = "SlowTask", !.threshold_ms = threshold_ms]

Outcome(res, st) == [res |-> res, inst |-> st]

\* get_trace_field
get_trace_field(trace_event, field_name) ==
    IF IsSome(get_str(trace_event, field_name))
    THEN [ok |-> TRUE, v |-> Unwrap(get_str(trace_event, field_name)), err |-> ""]
    ELSE [ok |-> FALSE, v |-> "", err |-> "Missing " \o field_name \o " field"]

\* an eviction loop that keeps every sample
EvictNone(window, time) == window

\* an eviction loop that also pops a sample exactly ROLLING_WINDOW_SECONDS old
RECURSIVE EvictInclusive(_, _)
EvictInclusive(window, time) ==
    IF window = <<>> THEN window
    ELSE IF ~FGt(F(ROLLING_WINDOW_SECONDS), FSub(time, Head(window).time))
         THEN EvictInclusive(Tail(window), time)
         ELSE window

\* the `while let Some(front) = window.front()` eviction loop
RECURSIVE Evict(_, _)
Evict(window, time) ==
    IF window = <<>> THEN window
    ELSE IF FGt(FSub(time, Head(window).time), F(ROLLING_WINDOW_SECONDS))
         THEN Evict(Tail(window), time)
         ELSE window

RECURSIVE SumValues(_)
SumValues(window) ==
    IF window = <<>> THEN F(0) ELSE FAdd(Head(window).value, SumValues(Tail(window)))

\* the locked block with push_front in place of push_back
SmoothPushFront(st, i, labels, time, sample) ==
    LET key == from_labels(labels)
        window == Evict(<<[time |-> time, value |-> sample]>>
                           \o GetOr(st.windows, <<i, key>>, <<>>), time)
        count == Len(window)
        averaged == IF count = 0 THEN sample
                    ELSE [n |-> SumValues(window).n, d |-> SumValues(window).d * count]
    IN GaugeRecord([st EXCEPT !.windows = Put(st.windows, <<i, key>>, window)],
                   i, averaged, labels)

\* the locked block shared by the three smoothing recorders: push, evict, mean
Smooth(st, i, labels, time, sample) ==
    LET key == from_labels(labels)
        window == Evict(Append(GetOr(st.windows, <<i, key>>, <<>>),
                               [time |-> time, value |-> sample]), time)
        count == Len(window)
        averaged == IF count = 0 THEN sample
                    ELSE [n |-> SumValues(window).n, d |-> SumValues(window).d * count]
    IN GaugeRecord([st EXCEPT !.windows = Put(st.windows, <<i, key>>, window)],
                   i, averaged, labels)

\* SimpleFDBGauge::record with the value field read before the Type is compared
SimpleRecordFieldFirst(i, r, trace_event, labels, st) ==
    LET trace_type == get_trace_field(trace_event, "Type")
        value == get_str(trace_event, r.field_name)
        time == get_trace_field(trace_event, "Time")
    IN IF ~trace_type.ok THEN Outcome(Err(trace_type.err), st)
       ELSE IF ~IsSome(value) THEN Outcome(Err("Missing " \o r.field_name \o " field"), st)
       ELSE IF trace_type.v # r.trace_type THEN Outcome(Ok, st)
       ELSE IF ~IsSome(parse_f64(Unwrap(value))) THEN Outcome(Err("invalid float literal"), st)
       ELSE IF ~time.ok THEN Outcome(Err(time.err), st)
       ELSE IF ~IsSome(parse_f64(time.v)) THEN Outcome(Err("invalid float literal"), st)
       ELSE Outcome(Ok, Smooth(st, i, labels, Unwrap(parse_f64(time.v)),
                               Unwrap(parse_f64(Unwrap(value)))))

\* SimpleFDBGauge::record
SimpleRecord(i, r, trace_event, labels, st) ==
    LET trace_type == get_trace_field(trace_event, "Type")
        value == get_str(trace_event, r.field_name)
        time == get_trace_field(trace_event, "Time")
    IN IF ~trace_type.ok THEN Outcome(Err(trace_type.err), st)
       ELSE IF trace_type.v # r.trace_type THEN Outcome(Ok, st)
       ELSE IF ~IsSome(value) THEN Outcome(Err("Missing " \o r.field_name \o " field"), st)
       ELSE IF ~IsSome(parse_f64(Unwrap(value))) THEN Outcome(Err("invalid float literal"), st)
       ELSE IF ~time.ok THEN Outcome(Err(time.err), st)
       ELSE IF ~IsSome(parse_f64(time.v)) THEN Outcome(Err("invalid float literal"), st)
       ELSE Outcome(Ok, Smooth(st, i, labels, Unwrap(parse_f64(time.v)),
                               Unwrap(parse_f64(Unwrap(value)))))

\* TotalCounterFDBGauge::record taking the second element of the split
TotalCounterRecordSecond(i, r, trace_event, labels, st) ==
    LET trace_type == get_trace_field(trace_event, "Type")
        value == get_trace_field(trace_event, r.field_name)
        second == nth(split_space(value.v), 1)
    IN IF ~trace_type.ok THEN Outcome(Err(trace_type.err), st)
       ELSE IF trace_type.v # r.trace_type THEN Outcome(Ok, st)
       ELSE IF ~value.ok THEN Outcome(Err(value.err), st)
       ELSE IF ~IsSome(second) THEN Outcome(Err("Malformed " \o r.field_name \o " counter"), st)
       ELSE IF ~IsSome(parse_f64(Unwrap(second))) THEN Outcome(Err("invalid float literal"), st)
       ELSE Outcome(Ok, GaugeRecord(st, i, Unwrap(parse_f64(Unwrap(second))), labels))

\* TotalCounterFDBGauge::record
TotalCounterRecord(i, r, trace_event, labels, st) ==
    LET trace_type == get_trace_field(trace_event, "Type")
        value == get_trace_field(trace_event, r.field_name)
        third == nth(split_space(value.v), 2)
    IN IF ~trace_type.ok THEN Outcome(Err(trace_type.err), st)
       ELSE IF trace_type.v # r.trace_type THEN Outcome(Ok, st)
       ELSE IF ~value.ok THEN Outcome(Err(value.err), st)
       ELSE IF ~IsSome(third) THEN Outcome(Err("Malformed " \o r.field_name \o " counter"), st)
       ELSE IF ~IsSome(parse_f64(Unwrap(third))) THEN Outcome(Err("invalid float literal"), st)
       ELSE Outcome(Ok, GaugeRecord(st, i, Unwrap(parse_f64(Unwrap(third))), labels))

\* RateCounterFDBGauge::record
RateCounterRecord(i, r, trace_event, labels, st) ==
    LET trace_type == get_trace_field(trace_event, "Type")
        value == get_trace_field(trace_event, r.field_name)
        first == nth(split_space(value.v), 0)
        time == get_trace_field(trace_event, "Time")
    IN IF ~trace_type.ok THEN Outcome(Err(trace_type.err), st)
       ELSE IF trace_type.v # r.trace_type THEN Outcome(Ok, st)
       ELSE IF ~value.ok THEN Outcome(Err(value.err), st)
       ELSE IF ~IsSome(first) THEN Outcome(Err("Malformed " \o r.field_name \o " counter"), st)
       ELSE IF ~IsSome(parse_f64(Unwrap(first))) THEN Outcome(Err("invalid float literal"), st)
       ELSE IF ~time.ok THEN Outcome(Err(time.err), st)
       ELSE IF ~IsSome(parse_f64(time.v)) THEN Outcome(Err("invalid float literal"), st)
       ELSE Outcome(Ok, Smooth(st, i, labels, Unwrap(parse_f64(time.v)),
                               Unwrap(parse_f64(Unwrap(first)))))

\* ElapsedRateFDBGauge::record pushing the raw value before Elapsed is read
ElapsedRateRecordPushFirst(i, r, trace_event, labels, st) ==
    LET trace_type == get_trace_field(trace_event, "Type")
        value == get_trace_field(trace_event, r.field_name)
        elapsed == get_trace_field(trace_event, "Elapsed")
        time == get_trace_field(trace_event, "Time")
        pushed == Smooth(st, i, labels, Unwrap(parse_f64(time.v)), Unwrap(parse_f64(value.v)))
    IN IF ~trace_type.ok THEN Outcome(Err(trace_type.err), st)
       ELSE IF trace_type.v # r.trace_type THEN Outcome(Ok, st)
       ELSE IF ~value.ok THEN Outcome(Err(value.err), st)
       ELSE IF ~IsSome(parse_f64(value.v)) THEN Outcome(Err("invalid float literal"), st)
       ELSE IF ~time.ok THEN Outcome(Err(time.err), st)
       ELSE IF ~IsSome(parse_f64(time.v)) THEN Outcome(Err("invalid float literal"), st)
       ELSE IF ~elapsed.ok THEN Outcome(Err(elapsed.err), pushed)
       ELSE IF ~IsSome(parse_f64(elapsed.v)) THEN Outcome(Err("invalid float literal"), pushed)
       ELSE Outcome(Ok, Smooth(st, i, labels, Unwrap(parse_f64(time.v)),
                               FDiv(Unwrap(parse_f64(value.v)), Unwrap(parse_f64(elapsed.v)))))

\* ElapsedRateFDBGauge::record
ElapsedRateRecord(i, r, trace_event, labels, st) ==
    LET trace_type == get_trace_field(trace_event, "Type")
        value == get_trace_field(trace_event, r.field_name)
        elapsed == get_trace_field(trace_event, "Elapsed")
        time == get_trace_field(trace_event, "Time")
    IN IF ~trace_type.ok THEN Outcome(Err(trace_type.err), st)
       ELSE IF trace_type.v # r.trace_type THEN Outcome(Ok, st)
       ELSE IF ~value.ok THEN Outcome(Err(value.err), st)
       ELSE IF ~IsSome(parse_f64(value.v)) THEN Outcome(Err("invalid float literal"), st)
       ELSE IF ~elapsed.ok THEN Outcome(Err(elapsed.err), st)
       ELSE IF ~IsSome(parse_f64(elapsed.v)) THEN Outcome(Err("invalid float literal"), st)
       ELSE IF ~time.ok THEN Outcome(Err(time.err), st)
       ELSE IF ~IsSome(parse_f64(time.v)) THEN Outcome(Err("invalid float literal"), st)
       ELSE Outcome(Ok, Smooth(st, i, labels, Unwrap(parse_f64(time.v)),
                               FDiv(Unwrap(parse_f64(value.v)), Unwrap(parse_f64(elapsed.v)))))

\* ------------------------------------------------------------ histograms
\* f64::ln and f64::exp are computed on integers x that stand for x / Scale.
Scale == 1000

\* floor(a * b / c), without forming a * b
MulDiv(a, b, c) == (a \div c) * b + ((a % c) * b) \div c

\* f64::exp(-x), x >= 0: halve x down to [0, 1/2], there the series up to x^4
RECURSIVE ExpNeg(_)
ExpNeg(x) ==
    IF 2 * x > Scale
    THEN (ExpNeg(x \div 2) * ExpNeg(x - x \div 2)) \div Scale
    ELSE LET t2 == (x * x) \div (2 * Scale)
             t3 == (t2 * x) \div (3 * Scale)
             t4 == (t3 * x) \div (4 * Scale)
         IN Scale - x + t2 - t3 + t4

\* -f64::ln(y) for y in [1/2, 1]: 2 atanh((1 - y) / (1 + y)), series up to z^5
NegLnSeries(y) ==
    LET z == ((Scale - y) * Scale) \div (Scale + y)
        z2 == (z * z) \div Scale
        t3 == (z * z2) \div (3 * Scale)
        t5 == (3 * t3 * z2) \div (5 * Scale)
    IN 2 * (z + t3 + t5)

\* -f64::ln(y), 0 < y <= 1: double y up to [1/2, 1], adding ln 2 each time
RECURSIVE NegLn(_)
NegLn(y) ==
    IF 2 * y < Scale THEN NegLnSeries(Scale \div 2) + NegLn(2 * y) ELSE NegLnSeries(y)

\* HistogramUnit, HistogramUnit::divisor
HistogramUnits == {"milliseconds", "bytes", "count"}
divisor(unit) == IF unit = "milliseconds" THEN 1000000 ELSE 1

\* u64, scaled down to WordBits bits: u64::MAX
WordBits == 14
u64_MAX == 2 ^ WordBits - 1

\* u64::saturating_mul and u64::checked_mul
saturating_mul(a, b) == IF a * b > u64_MAX THEN u64_MAX ELSE a * b
checked_mul(a, b) == IF a * b > u64_MAX THEN None ELSE Some(a * b)

\* `value as u64` of an f64 given as a fraction: truncates toward zero,
\* saturates at the ends of the range, NaN becomes 0
as_u64(value) ==
    CASE value.d = 0 -> IF value.n > 0 THEN u64_MAX ELSE 0
      [] value.n < 0 -> 0
      [] value.n \div value.d > u64_MAX -> u64_MAX
      [] OTHER -> value.n \div value.d

\* HistogramUnit::convert_bucket_upper
convert_bucket_upper(unit, bucket_value) ==
    IF unit = "milliseconds" THEN as_u64([n |-> bucket_value.n * 1000, d |-> bucket_value.d])
    ELSE as_u64(bucket_value)

\* struct HistogramBucket
HistogramBucket(lower_bound, upper_bound, count, cumulative_count) ==
    [lower_bound |-> lower_bound, upper_bound |-> upper_bound,
     count |-> count, cumulative_count |-> cumulative_count]

\* `bound as f64 / unit_divisor`, and an interpolated value x / Scale in base
\* units over the divisor: both as fractions over Scale * unit_divisor
BoundValue(bound, unit_divisor) == [n |-> bound * Scale, d |-> Scale * unit_divisor]
BaseValue(x, unit_divisor) == [n |-> x, d |-> Scale * unit_divisor]

\* the target bucket picked without skipping the buckets of count zero
TargetIndexAnyCount(buckets, total_count, percentile) ==
    LET reached == {k \in DOMAIN buckets :
                      buckets[k].cumulative_count * percentile.d
                         >= percentile.n * total_count}
    IN IF reached = {} THEN Len(buckets)
       ELSE CHOOSE k \in reached : \A other \in reached : k <= other

\* the target bucket picked with `>` in place of `>=`
TargetIndexStrict(buckets, total_count, percentile) ==
    LET reached == {k \in DOMAIN buckets :
                      /\ buckets[k].count # 0
                      /\ buckets[k].cumulative_count * percentile.d
                            > percentile.n * total_count}
    IN IF reached = {} THEN Len(buckets)
       ELSE CHOOSE k \in reached : \A other \in reached : k <= other

\* the loop of interpolate_exponential_percentile that picks the target bucket:
\* the first bucket of non-zero count whose cumulative count reaches
\* percentile * total_count, the last bucket if there is none
TargetIndex(buckets, total_count, percentile) ==
    LET reached == {k \in DOMAIN buckets :
                      /\ buckets[k].count # 0
                      /\ buckets[k].cumulative_count * percentile.d
                            >= percentile.n * total_count}
    IN IF reached = {} THEN Len(buckets)
       ELSE CHOOSE k \in reached : \A other \in reached : k <= other

\* f64::clamp(0.0, 1.0)
Clamp01(x) == IF x.n < 0 THEN F(0) ELSE IF x.n > x.d THEN F(1) ELSE x

\* u64::saturating_sub(bucket.cumulative_count, bucket.count)
LowerCumulative(bucket) ==
    IF bucket.cumulative_count >= bucket.count
    THEN bucket.cumulative_count - bucket.count ELSE 0

\* `let lambda = ...`: the fraction n / (Scale * d) per base unit;
\* f64::INFINITY has d = 0
Lambda(bucket, total_count) ==
    IF bucket.cumulative_count >= total_count
    THEN IF bucket.lower_bound > 0 /\ LowerCumulative(bucket) < total_count
         THEN [n |-> NegLn(((total_count - LowerCumulative(bucket)) * Scale)
                              \div total_count),
               d |-> bucket.lower_bound]
         ELSE [n |-> 1, d |-> 0]
    ELSE [n |-> NegLn(((total_count - bucket.cumulative_count) * Scale) \div total_count),
          d |-> bucket.upper_bound]

\* `Some(value.clamp(bucket_lower_value, bucket_upper_value))`
Clamped(bucket, unit_divisor, value) ==
    IF value < bucket.lower_bound * Scale THEN BoundValue(bucket.lower_bound, unit_divisor)
    ELSE IF value > bucket.upper_bound * Scale
         THEN BoundValue(bucket.upper_bound, unit_divisor)
    ELSE BaseValue(value, unit_divisor)

\* from `if target <= 0.0` on
FromTarget(bucket, unit_divisor, lambda, target) ==
    IF target <= 0 THEN BoundValue(bucket.upper_bound, unit_divisor)
    ELSE Clamped(bucket, unit_divisor, MulDiv(NegLn(target) * Scale, lambda.d, lambda.n))

\* from `let denom` on; the relative percentile is rel_n / rel_d
FromExp(bucket, unit_divisor, lambda, rel_n, rel_d, exp_neg_lambda_lower, exp_neg_lambda_upper) ==
    IF exp_neg_lambda_lower - exp_neg_lambda_upper <= 0
    THEN BoundValue(bucket.upper_bound, unit_divisor)
    ELSE FromTarget(bucket, unit_divisor, lambda,
                    exp_neg_lambda_lower
                      - MulDiv(exp_neg_lambda_lower - exp_neg_lambda_upper, rel_n, rel_d))

\* from `if !lambda.is_finite() || lambda <= 0.0` on. f64::EPSILON is below
\* the resolution: relative_percentile is clamped to [0, 1].
FromLambda(bucket, unit_divisor, lambda, rel_n, rel_d) ==
    IF lambda.d = 0 \/ lambda.n <= 0 THEN BoundValue(bucket.upper_bound, unit_divisor)
    ELSE FromExp(bucket, unit_divisor, lambda,
                 IF rel_n > rel_d THEN rel_d ELSE IF rel_n < 0 THEN 0 ELSE rel_n, rel_d,
                 ExpNeg(MulDiv(lambda.n, bucket.lower_bound, lambda.d)),
                 ExpNeg(MulDiv(lambda.n, bucket.upper_bound, lambda.d)))

\* the interpolation within the bucket, measured from the upper end
InBucketReversed(bucket, total_count, percentile, unit_divisor) ==
    FromLambda(bucket, unit_divisor, Lambda(bucket, total_count),
               bucket.count * percentile.d
                 - (percentile.n * total_count - LowerCumulative(bucket) * percentile.d),
               bucket.count * percentile.d)

\* the part of interpolate_exponential_percentile behind `percentile <= prev_cdf`
InBucket(bucket, total_count, percentile, unit_divisor) ==
    FromLambda(bucket, unit_divisor, Lambda(bucket, total_count),
               percentile.n * total_count - LowerCumulative(bucket) * percentile.d,
               bucket.count * percentile.d)

\* the returns of interpolate_exponential_percentile once the target bucket is known
InTarget(buckets, bucket, total_count, p, unit_divisor) ==
    IF p.n >= p.d THEN BoundValue(buckets[Len(buckets)].upper_bound, unit_divisor)
    ELSE IF bucket.upper_bound <= 0 THEN BoundValue(bucket.upper_bound, unit_divisor)
    ELSE IF bucket.count <= 0 THEN BoundValue(bucket.upper_bound, unit_divisor)
    ELSE IF p.n * total_count <= LowerCumulative(bucket) * p.d
         THEN BoundValue(bucket.lower_bound, unit_divisor)
    ELSE InBucket(bucket, total_count, p, unit_divisor)

\* interpolate_exponential_percentile
interpolate_exponential_percentile(buckets, total_count, percentile, unit_divisor) ==
    IF buckets = <<>> \/ total_count = 0 \/ unit_divisor <= 0 THEN None
    ELSE Some(InTarget(buckets,
                       buckets[TargetIndex(buckets, total_count, Clamp01(percentile))],
                       total_count, Clamp01(percentile), unit_divisor))

\* the bucket the `while expected_upper < upper_bound` loop pushes
GapBucket(expected_upper, cumulative) ==
    HistogramBucket(expected_upper \div 2, expected_upper, 0, cumulative)

\* the bucket pushed for an entry of `hist`
EmittedBucket(upper_bound, count, cumulative) ==
    HistogramBucket(upper_bound \div 2, upper_bound, count, cumulative + count)

\* `match upper_bound.checked_mul(2) { Some(value) => value, None => upper_bound }`
ExpectedAfter(upper_bound) ==
    IF IsSome(checked_mul(upper_bound, 2)) THEN Unwrap(checked_mul(upper_bound, 2))
    ELSE upper_bound

\* `if expected_upper == 0 { break; }`, and a loop without it
LoopNeverBreaks(expected_upper) == FALSE
LoopBreaks(expected_upper) == expected_upper = 0

\* the `while expected_upper < upper_bound` loop of record
RECURSIVE FillGap(_, _, _, _)
FillGap(buckets, expected_upper, upper_bound, cumulative) ==
    IF expected_upper < upper_bound
    THEN LET pushed == Append(buckets, GapBucket(expected_upper, cumulative))
         IN IF LoopBreaks(saturating_mul(expected_upper, 2))
            THEN [buckets |-> pushed, expected_upper |-> 0]
            ELSE FillGap(pushed, saturating_mul(expected_upper, 2), upper_bound, cumulative)
    ELSE [buckets |-> buckets, expected_upper |-> expected_upper]

\* the `for (upper_bound, count) in hist_entries` loop of record (the counts of
\* the model are far from u64::MAX: `cumulative += count` does not overflow)
RECURSIVE WalkEntries(_, _, _, _)
WalkEntries(hist_entries, buckets, cumulative, expected_upper) ==
    IF hist_entries = <<>> THEN buckets
    ELSE LET upper_bound == Head(hist_entries)[1]
             count == Head(hist_entries)[2]
             filled == FillGap(buckets, expected_upper, upper_bound, cumulative)
         IN WalkEntries(Tail(hist_entries),
                        Append(filled.buckets, EmittedBucket(upper_bound, count, cumulative)),
                        cumulative + count, ExpectedAfter(upper_bound))

\* the buckets record builds from the non-empty `hist`, given in key order
BuildBuckets(hist_entries) ==
    WalkEntries(hist_entries, <<>>, 0, Head(hist_entries)[1])

\* BTreeMap::iter: the entries of `hist` by ascending upper bound
RECURSIVE hist_iter(_)
hist_iter(hist) ==
    IF DOMAIN hist = {} THEN <<>>
    ELSE LET first == CHOOSE u \in DOMAIN hist : \A other \in DOMAIN hist : u <= other
         IN <<<<first, hist[first]>>>>
              \o hist_iter([u \in DOMAIN hist \ {first} |-> hist[u]])

\* `k.strip_prefix("LessThan")` on the keys the model uses
strip_prefix(k) ==
    CASE k = "LessThan2" -> "2"
      [] k = "LessThan3" -> "3"
      [] k = "LessThan4" -> "4"
      [] k = "LessThan8" -> "8"

\* the `for (k, v) in trace_event` loop of record: `hist`, from upper bound in
\* base units to count, of an event whose LessThan values all parse
HistOf(trace_event, unit) ==
    LET less_than == {k \in LessThanKeys : IsSome(get(trace_event, k))}
        upper_of == [k \in less_than |->
                        convert_bucket_upper(unit, Unwrap(parse_f64(strip_prefix(k))))]
    IN [u \in {upper_of[k] : k \in less_than} |->
           Unwrap(parse_u64(Unwrap(get_str(trace_event,
               CHOOSE k \in less_than : upper_of[k] = u))))]

\* `if let Some(interpolated_value) = ... { self.gauge.record(...) }`
RecordSome(st, i, interpolated_value, labels) ==
    IF interpolated_value = None THEN st
    ELSE GaugeRecord(st, i, interpolated_value[1], labels)

\* HistogramPercentileFDBGauge::record rejecting a Unit it does not know
HistogramRecordKnownUnit(i, r, trace_event, labels, st) ==
    LET trace_type == get_trace_field(trace_event, "Type")
        group == get_trace_field(trace_event, "Group")
        op == get_trace_field(trace_event, "Op")
        unit_str == get_trace_field(trace_event, "Unit")
        total_count == get_trace_field(trace_event, "TotalCount")
    IN IF ~trace_type.ok THEN Outcome(Err(trace_type.err), st)
       ELSE IF trace_type.v # "Histogram" THEN Outcome(Ok, st)
       ELSE IF ~group.ok THEN Outcome(Err(group.err), st)
       ELSE IF group.v # r.group THEN Outcome(Ok, st)
       ELSE IF ~op.ok THEN Outcome(Err(op.err), st)
       ELSE IF op.v # r.op THEN Outcome(Ok, st)
       ELSE IF ~unit_str.ok THEN Outcome(Err(unit_str.err), st)
       ELSE IF unit_str.v \notin HistogramUnits THEN Outcome(Err("Unknown Unit"), st)
       ELSE IF ~total_count.ok THEN Outcome(Err(total_count.err), st)
       ELSE IF ~IsSome(parse_u64(total_count.v))
            THEN Outcome(Err("invalid digit found in string"), st)
       ELSE IF Unwrap(parse_u64(total_count.v)) = 0 THEN Outcome(Ok, st)
       ELSE IF \E k \in LessThanKeys :
                  IsSome(get(trace_event, k)) /\ ~IsSome(get_str(trace_event, k))
            THEN Outcome(Err("Trace event values should be strings"), st)
       ELSE IF \E k \in LessThanKeys :
                  /\ IsSome(get(trace_event, k))
                  /\ ~IsSome(parse_u64(Unwrap(get_str(trace_event, k))))
            THEN Outcome(Err("invalid digit found in string"), st)
       ELSE IF \A k \in LessThanKeys : ~IsSome(get(trace_event, k)) THEN Outcome(Ok, st)
       ELSE Outcome(Ok, RecordSome(st, i,
                interpolate_exponential_percentile(
                    BuildBuckets(hist_iter(HistOf(trace_event, unit_str.v))),
                    Unwrap(parse_u64(total_count.v)), r.percentile, divisor(unit_str.v)),
                labels))

\* HistogramPercentileFDBGauge::record. The HashMap is walked in no fixed
\* order; the events of the model carry at most one bad LessThan value, so
\* the error returned does not depend on the order.
HistogramRecord(i, r, trace_event, labels, st) ==
    LET trace_type == get_trace_field(trace_event, "Type")
        group == get_trace_field(trace_event, "Group")
        op == get_trace_field(trace_event, "Op")
        unit_str == get_trace_field(trace_event, "Unit")
        total_count == get_trace_field(trace_event, "TotalCount")
    IN IF ~trace_type.ok THEN Outcome(Err(trace_type.err), st)
       ELSE IF trace_type.v # "Histogram" THEN Outcome(Ok, st)
       ELSE IF ~group.ok THEN Outcome(Err(group.err), st)
       ELSE IF group.v # r.group THEN Outcome(Ok, st)
       ELSE IF ~op.ok THEN Outcome(Err(op.err), st)
       ELSE IF op.v # r.op THEN Outcome(Ok, st)
       ELSE IF ~unit_str.ok THEN Outcome(Err(unit_str.err), st)
       ELSE IF unit_str.v \notin HistogramUnits THEN Outcome(Ok, st)
       ELSE IF ~total_count.ok THEN Outcome(Err(total_count.err), st)
       ELSE IF ~IsSome(parse_u64(total_count.v))
            THEN Outcome(Err("invalid digit found in string"), st)
       ELSE IF Unwrap(parse_u64(total_count.v)) = 0 THEN Outcome(Ok, st)
       ELSE IF \E k \in LessThanKeys :
                  IsSome(get(trace_event, k)) /\ ~IsSome(get_str(trace_event, k))
            THEN Outcome(Err("Trace event values should be strings"), st)
       ELSE IF \E k \in LessThanKeys :
                  /\ IsSome(get(trace_event, k))
                  /\ ~IsSome(parse_u64(Unwrap(get_str(trace_event, k))))
            THEN Outcome(Err("invalid digit found in string"), st)
       ELSE IF \A k \in LessThanKeys : ~IsSome(get(trace_event, k)) THEN Outcome(Ok, st)
       ELSE Outcome(Ok, RecordSome(st, i,
                interpolate_exponential_percentile(
                    BuildBuckets(hist_iter(HistOf(trace_event, unit_str.v))),
                    Unwrap(parse_u64(total_count.v)), r.percentile, divisor(unit_str.v)),
                labels))

\* SevCounter::record counting every severity from its own upwards
SevCounterRecordAtLeast(i, r, trace_event, labels, st) ==
    LET field == get_str(trace_event, "Severity")
    IN IF ~IsSome(field) THEN Outcome(Err("Missing Severity field"), st)
       ELSE IF ~IsSome(parse_u64(Unwrap(field)))
            THEN Outcome(Err("Invalid Severity field"), st)
       ELSE IF Unwrap(parse_u64(Unwrap(field))) >= r.severity
            THEN Outcome(Ok, CounterAdd(st, i, labels))
       ELSE Outcome(Ok, st)

\* SevCounter::record
SevCounterRecord(i, r, trace_event, labels, st) ==
    LET field == get(trace_event, "Severity")
    IN IF ~IsSome(field) THEN Outcome(Err("Missing Severity field"), st)
       ELSE IF ~IsSome(as_str(Unwrap(field))) THEN Outcome(Err("Invalid Severity field"), st)
       ELSE IF ~IsSome(parse_u64(Unwrap(as_str(Unwrap(field)))))
            THEN Outcome(Err("Invalid Severity field"), st)
       ELSE IF Unwrap(parse_u64(Unwrap(as_str(Unwrap(field))))) = r.severity
            THEN Outcome(Ok, CounterAdd(st, i, labels))
       ELSE Outcome(Ok, st)

\* SlowTaskCounter::record counting a Duration equal to the threshold
SlowTaskRecordAtLeast(i, r, trace_event, labels, st) ==
    LET trace_type == get_str(trace_event, "Type")
        duration == get(trace_event, "Duration")
    IN IF ~IsSome(get(trace_event, "Type")) THEN Outcome(Err("Missing Type field"), st)
       ELSE IF ~IsSome(trace_type) THEN Outcome(Err("Invalid Type field"), st)
       ELSE IF Unwrap(trace_type) # "SlowTask" THEN Outcome(Ok, st)
       ELSE IF ~IsSome(duration) THEN Outcome(Err("Missing Duration field"), st)
       ELSE IF ~IsSome(as_str(Unwrap(duration)))
            THEN Outcome(Err("Invalid Duration field"), st)
       ELSE IF ~IsSome(parse_f64(Unwrap(as_str(Unwrap(duration)))))
            THEN Outcome(Err("Invalid Duration field"), st)
       ELSE IF ~FGt(FDiv(F(r.threshold_ms), F(1000)),
                    Unwrap(parse_f64(Unwrap(as_str(Unwrap(duration))))))
            THEN Outcome(Ok, CounterAdd(st, i, labels))
       ELSE Outcome(Ok, st)

\* SlowTaskCounter::record reading Duration before the Type is compared
SlowTaskRecordDurationFirst(i, r, trace_event, labels, st) ==
    LET trace_type == get_str(trace_event, "Type")
        duration == get_str(trace_event, "Duration")
    IN IF ~IsSome(trace_type) THEN Outcome(Err("Missing Type field"), st)
       ELSE IF ~IsSome(duration) THEN Outcome(Err("Missing Duration field"), st)
       ELSE IF ~IsSome(parse_f64(Unwrap(duration)))
            THEN Outcome(Err("Invalid Duration field"), st)
       ELSE IF Unwrap(trace_type) = "SlowTask"
               /\ FGt(Unwrap(parse_f64(Unwrap(duration))), FDiv(F(r.threshold_ms), F(1000)))
            THEN Outcome(Ok, CounterAdd(st, i, labels))
       ELSE Outcome(Ok, st)

\* SlowTaskCounter::record
SlowTaskRecord(i, r, trace_event, labels, st) ==
    LET trace_type == get(trace_event, "Type")
        duration == get(trace_event, "Duration")
    IN IF ~IsSome(trace_type) THEN Outcome(Err("Missing Type field"), st)
       ELSE IF ~IsSome(as_str(Unwrap(trace_type)))
            THEN Outcome(Err("Invalid Type field"), st)
       ELSE IF Unwrap(as_str(Unwrap(trace_type))) # "SlowTask" THEN Outcome(Ok, st)
       ELSE IF ~IsSome(duration) THEN Outcome(Err("Missing Duration field"), st)
       ELSE IF ~IsSome(as_str(Unwrap(duration)))
            THEN Outcome(Err("Invalid Duration field"), st)
       ELSE IF ~IsSome(parse_f64(Unwrap(as_str(Unwrap(duration)))))
            THEN Outcome(Err("Invalid Duration field"), st)
       ELSE IF FGt(Unwrap(parse_f64(Unwrap(as_str(Unwrap(duration))))),
                   FDiv(F(r.threshold_ms), F(1000)))
            THEN Outcome(Ok, CounterAdd(st, i, labels))
       ELSE Outcome(Ok, st)

\* FDBMetric::record, dispatched on the recorder's type
FDBMetricRecord(i, r, trace_event, labels, st) ==
    CASE r.kind = "Simple" -> SimpleRecord(i, r, trace_event, labels, st)
      [] r.kind = "TotalCounter" -> TotalCounterRecord(i, r, trace_event, labels, st)
      [] r.kind = "RateCounter" -> RateCounterRecord(i, r, trace_event, labels, st)
      [] r.kind = "ElapsedRate" -> ElapsedRateRecord(i, r, trace_event, labels, st)
      [] r.kind = "Histogram" -> HistogramRecord(i, r, trace_event, labels, st)
      [] r.kind = "Sev" -> SevCounterRecord(i, r, trace_event, labels, st)
      [] r.kind = "SlowTask" -> SlowTaskRecord(i, r, trace_event, labels, st)

\* ------------------------------------------------------- process configuration
\* An environment variable is unset, set to Unicode text, or set to bytes that
\* are no Unicode text.
Unset == [state |-> "unset", value |-> ""]
Set(value) == [state |-> "unicode", value |-> value]
NotUnicode == [state |-> "not_unicode", value |-> ""]

\* env::var(key).unwrap_or_else(|_| default.to_string()): every Err of
\* env::var, NotPresent as well as NotUnicode, gives the default
var_or_default(var, default) == IF var.state = "unicode" THEN var.value ELSE default

\* str::parse::<SocketAddr> returns Ok
parse_socket_addr(text) == text \in {"0.0.0.0:9200", "127.0.0.1:1234"}

\* str::parse::<f64>: a float as a fraction, d = 0 for inf (n > 0), -inf
\* (n < 0) and NaN (n = 0)
parse_env_f64(text) ==
    CASE text = "5" -> Some(F(5))
      [] text = "0.5" -> Some([n |-> 1, d |-> 2])
      [] text = "-1" -> Some(F(0 - 1))
      [] text = "inf" -> Some([n |-> 1, d |-> 0])
      [] text = "NaN" -> Some([n |-> 0, d |-> 0])
      [] OTHER -> None

\* the value AppConfig::from_env returns, the error it returns (with the
\* variable its message names), or the panic it ends in
NoApp ==
    [env |-> [key \in {"LISTEN_ADDR", "LOG_DIR", "TRACE_LOG_FILE", "LOG_POLL_INTERVAL_SECS"}
                |-> Unset],
     kind |-> "none", key |-> "", listen_addr |-> "", log_dir |-> "",
     trace_log_file |-> "", log_poll_interval |-> F(0)]
AppOk(a, listen_addr, log_dir, trace_log_file, log_poll_interval) ==
    [a EXCEPT !.kind = "ok", !.listen_addr = listen_addr, !.log_dir = log_dir,
              !.trace_log_file = trace_log_file, !.log_poll_interval = log_poll_interval]
AppErr(a, key) == [a EXCEPT !.kind = "err", !.key = key]
AppPanic(a) == [a EXCEPT !.kind = "panic"]

\* parse_f64_env(key, default)
parse_f64_env(var, default) ==
    CASE var.state = "unset" -> [ok |-> TRUE, v |-> default]
      [] var.state = "not_unicode" -> [ok |-> FALSE, v |-> default]
      [] OTHER -> IF IsSome(parse_env_f64(var.value))
                  THEN [ok |-> TRUE, v |-> Unwrap(parse_env_f64(var.value))]
                  ELSE [ok |-> FALSE, v |-> default]

\* Duration::from_secs_f64 returns: it panics for a negative or non-finite
\* number of seconds
from_secs_f64_returns(secs) == secs.d # 0 /\ secs.n >= 0

\* AppConfig::from_env
from_env(a) ==
    IF ~parse_socket_addr(var_or_default(a.env["LISTEN_ADDR"], "0.0.0.0:9200"))
    THEN AppErr(a, "LISTEN_ADDR")
    ELSE IF ~parse_f64_env(a.env["LOG_POLL_INTERVAL_SECS"], F(2)).ok
    THEN AppErr(a, "LOG_POLL_INTERVAL_SECS")
    ELSE IF ~from_secs_f64_returns(parse_f64_env(a.env["LOG_POLL_INTERVAL_SECS"], F(2)).v)
    THEN AppPanic(a)
    ELSE AppOk(a, var_or_default(a.env["LISTEN_ADDR"], "0.0.0.0:9200"),
               var_or_default(a.env["LOG_DIR"], "logs"),
               var_or_default(a.env["TRACE_LOG_FILE"], "logs/tracing.log"),
               parse_f64_env(a.env["LOG_POLL_INTERVAL_SECS"], F(2)).v)

\* ------------------------------------------------------------ gauge config
\* A text is the sequence of its characters where the code edits it
\* character by character.
Digit(k) ==
    CASE k = 0 -> "0" [] k = 1 -> "1" [] k = 2 -> "2" [] k = 3 -> "3" [] k = 4 -> "4"
      [] k = 5 -> "5" [] k = 6 -> "6" [] k = 7 -> "7" [] k = 8 -> "8" [] k = 9 -> "9"

\* the decimal digits of a natural number
RECURSIVE Digits(_)
Digits(k) == IF k < 10 THEN <<Digit(k)>> ELSE Append(Digits(k \div 10), Digit(k % 10))

\* the last `width` decimal digits of k, with leading zeros
RECURSIVE Padded(_, _)
Padded(k, width) ==
    IF width = 0 THEN <<>> ELSE Append(Padded(k \div 10, width - 1), Digit(k % 10))

\* the characters as one string
RECURSIVE Joined(_)
Joined(chars) == IF chars = <<>> THEN "" ELSE Head(chars) \o Joined(Tail(chars))

\* `percentile * 100.0` in units of 10^-6, rounded to the nearest: the whole
\* part, then six decimals by long division
RECURSIVE Decimals(_, _, _, _)
Decimals(acc, rest, d, places) ==
    IF places = 0 THEN acc + (IF 2 * rest >= d THEN 1 ELSE 0)
    ELSE Decimals(acc * 10 + (rest * 10) \div d, (rest * 10) % d, d, places - 1)
Millionths(percentile) ==
    Decimals((percentile.n * 100) \div percentile.d, (percentile.n * 100) % percentile.d,
             percentile.d, 6)

\* format!("{:.6}", percentile * 100.0)
Format6(percentile) ==
    Digits(Millionths(percentile) \div 1000000) \o <<".">>
        \o Padded(Millionths(percentile) % 1000000, 6)

\* `while value.contains('.') && value.ends_with('0') { value.pop(); }`
RECURSIVE PopZeros(_)
PopZeros(value) ==
    IF "." \in {value[k] : k \in DOMAIN value} /\ value[Len(value)] = "0"
    THEN PopZeros(SubSeq(value, 1, Len(value) - 1))
    ELSE value

\* `if value.ends_with('.') { value.pop(); }`
PopDot(value) ==
    IF value # <<>> /\ value[Len(value)] = "." THEN SubSeq(value, 1, Len(value) - 1)
    ELSE value

\* percentile_display
percentile_display(percentile) == Joined(PopDot(PopZeros(Format6(percentile))))

\* percentile_suffix: replace('.', "_") and the leading p
percentile_suffix(percentile) ==
    "p" \o Joined([k \in DOMAIN PopDot(PopZeros(Format6(percentile))) |->
                     IF PopDot(PopZeros(Format6(percentile)))[k] = "." THEN "_"
                     ELSE PopDot(PopZeros(Format6(percentile)))[k]])

\* GaugeType::from_section_name
from_section_name(section) ==
    CASE section = "simple_gauge" -> Some("Simple")
      [] section = "counter_total_gauge" -> Some("CounterTotal")
      [] section = "counter_rate_gauge" -> Some("CounterRate")
      [] section = "elapsed_rate_gauge" -> Some("ElapsedRate")
      [] OTHER -> None

\* enum GaugeDefinition with StandardGaugeDefinition and
\* HistogramPercentileGaugeDefinition
NoDefinition ==
    [variant |-> "", trace_type |-> "", gauge_name |-> "", field_name |-> "",
     description |-> "", group |-> "", op |-> "", percentile |-> F(0)]
StandardGaugeDefinition(variant, entry) ==
    [NoDefinition EXCEPT !.variant = variant, !.trace_type = entry.trace_type,
                         !.gauge_name = entry.gauge_name, !.field_name = entry.field_name,
                         !.description = entry.description]
HistogramPercentileGaugeDefinition(group, op, percentile, gauge_name, description) ==
    [NoDefinition EXCEPT !.variant = "HistogramPercentile", !.group = group, !.op = op,
                         !.percentile = percentile, !.gauge_name = gauge_name,
                         !.description = description]

\* validate_percentile: finite (d # 0) and within [0, 1]
validate_percentile(value) == value.d # 0 /\ 0 <= value.n /\ value.n <= value.d

\* deserialize_percentiles returns Ok
deserialize_percentiles(percentiles) ==
    percentiles # <<>> /\ \A k \in DOMAIN percentiles : validate_percentile(percentiles[k])

\* `entry.clone().try_into()` returns Ok: the entry has its fields, and for a
\* histogram entry the percentiles deserialize
try_into(section, entry) ==
    /\ entry.complete
    /\ section = "histogram_percentile_gauge" => deserialize_percentiles(entry.percentiles)

\* the histogram arm with the suffix also on the name of a single percentile
HistogramDefinitionsAlwaysSuffixed(entry) ==
    [k \in DOMAIN entry.percentiles |->
        HistogramPercentileGaugeDefinition(
            entry.group, entry.op, entry.percentiles[k],
            entry.gauge_name \o "_" \o percentile_suffix(entry.percentiles[k]),
            entry.description)]

\* the definitions pushed for one histogram entry, in the order of its percentiles
HistogramDefinitions(entry) ==
    [k \in DOMAIN entry.percentiles |->
        HistogramPercentileGaugeDefinition(
            entry.group, entry.op, entry.percentiles[k],
            IF Len(entry.percentiles) = 1 THEN entry.gauge_name
            ELSE entry.gauge_name \o "_" \o percentile_suffix(entry.percentiles[k]),
            IF Len(entry.percentiles) = 1 THEN entry.description
            ELSE entry.description \o " (p" \o percentile_display(entry.percentiles[k])
                    \o ")")]

\* the definitions pushed for one entry of a recognised section
EntryDefinitions(section, entry) ==
    IF section = "histogram_percentile_gauge" THEN HistogramDefinitions(entry)
    ELSE <<StandardGaugeDefinition(Unwrap(from_section_name(section)), entry)>>

\* Result<Vec<GaugeDefinition>>: an Err carries no definitions
Loaded(gauges) == [ok |-> TRUE, err |-> "", gauges |-> gauges]
LoadError(err) == [ok |-> FALSE, err |-> err, gauges |-> <<>>]

\* the entry loops with an entry that fails to convert skipped
RECURSIVE ParseEntriesSkipping(_, _, _, _)
ParseEntriesSkipping(section, array, k, gauges) ==
    IF k > Len(array) THEN Loaded(gauges)
    ELSE IF ~try_into(section, array[k])
         THEN ParseEntriesSkipping(section, array, k + 1, gauges)
    ELSE ParseEntriesSkipping(section, array, k + 1,
                              gauges \o EntryDefinitions(section, array[k]))

\* the `for (index, entry) in array.iter().enumerate()` loops from entry k on
RECURSIVE ParseEntries(_, _, _, _)
ParseEntries(section, array, k, gauges) ==
    IF k > Len(array) THEN Loaded(gauges)
    ELSE IF ~try_into(section, array[k]) THEN LoadError("failed to parse entry")
    ELSE ParseEntries(section, array, k + 1, gauges \o EntryDefinitions(section, array[k]))

\* the section is histogram_percentile_gauge or one GaugeType knows
Recognised(section) ==
    section = "histogram_percentile_gauge" \/ IsSome(from_section_name(section))

\* the `for (section, entries) in table` loop of parse_typed_gauge_configs from
\* section k on, and the test of recognized_any behind it
RECURSIVE ParseSections(_, _, _, _)
ParseSections(table, k, gauges, recognized_any) ==
    IF k > Len(table)
    THEN IF recognized_any THEN Loaded(gauges)
         ELSE LoadError("did not contain any recognized sections")
    ELSE IF ~Recognised(table[k].section)
         THEN ParseSections(table, k + 1, gauges, recognized_any)
    ELSE IF ~table[k].is_array THEN LoadError("expected section to be an array")
    ELSE IF ~ParseEntries(table[k].section, table[k].entries, 1, gauges).ok
         THEN ParseEntries(table[k].section, table[k].entries, 1, gauges)
    ELSE ParseSections(table, k + 1,
                       ParseEntries(table[k].section, table[k].entries, 1, gauges).gauges,
                       TRUE)

\* parse_typed_gauge_configs
parse_typed_gauge_configs(table) == ParseSections(table, 1, <<>>, FALSE)

\* read_gauge_config_file. The file is missing, empty, whitespace only (both
\* have `contents.trim().is_empty()`), malformed (no TOML), or a TOML table,
\* given as its sections in the order the table iterates over them.
read_gauge_config_file(toml_config) ==
    CASE toml_config.state = "missing" -> LoadError("failed to read gauge config file")
      [] toml_config.state \in {"empty", "whitespace"} -> Loaded(<<>>)
      [] toml_config.state = "malformed" -> LoadError("failed to parse gauge config file")
      [] toml_config.state = "table" -> parse_typed_gauge_configs(toml_config.table)

\* a config file in one of its states
ConfigFile(state, table) == [state |-> state, table |-> table]

\* no config file read yet
NoConfig == [file |-> ConfigFile("missing", <<>>), read |-> FALSE, out |-> Loaded(<<>>)]

\* ----------------------------------------------------------------- registry
\* LogMetrics::new: the configured gauges, then the severity counters 10, 20, 30, 40
LogMetricsNew(configs) ==
    configs \o <<SevCounter(10), SevCounter(20), SevCounter(30), SevCounter(40)>>

\* the loop `for metric in self.metrics.iter() { metric.record(..)?; }` from recorder i on
RECURSIVE Dispatch(_, _, _, _, _, _)
Dispatch(ms, i, trace_event, labels, st, invoked) ==
    IF i > Len(ms) THEN [res |-> Ok, inst |-> st, calls |-> invoked]
    ELSE LET out == FDBMetricRecord(i, ms[i], trace_event, labels, st)
         IN IF ~out.res.ok
            THEN [res |-> out.res, inst |-> out.inst, calls |-> Append(invoked, i)]
            ELSE Dispatch(ms, i + 1, trace_event, labels, out.inst, Append(invoked, i))

\* the labels with a Roles label for every Roles value that is present
StorageLabelsAnyRoles(trace_event) ==
    <<KeyValue("machine", Unwrap(get_str(trace_event, "Machine")))>>
    \o (IF IsSome(get(trace_event, "Roles"))
        THEN <<KeyValue("Roles", Unwrap(get(trace_event, "Roles")).s)>>
        ELSE <<>>)

\* the labels LogMetrics::record derives from the event
StorageLabels(trace_event) ==
    <<KeyValue("machine", Unwrap(get_str(trace_event, "Machine")))>>
    \o (IF IsSome(get_str(trace_event, "Roles"))
        THEN <<KeyValue("Roles", Unwrap(get_str(trace_event, "Roles")))>>
        ELSE <<>>)

\* LogMetrics::record accepting any Machine value that is present
LogMetricsRecordAnyMachine(ms, trace_event, st) ==
    IF ~IsSome(get(trace_event, "Machine"))
    THEN [res |-> Err("Missing or invalid Machine field"), inst |-> st, calls |-> <<>>]
    ELSE Dispatch(ms, 1, trace_event,
                  <<KeyValue("machine", Unwrap(get(trace_event, "Machine")).s)>>, st, <<>>)

\* LogMetrics::record
LogMetricsRecord(ms, trace_event, st) ==
    IF ~IsSome(get_str(trace_event, "Machine"))
    THEN [res |-> Err("Missing or invalid Machine field"), inst |-> st, calls |-> <<>>]
    ELSE Dispatch(ms, 1, trace_event, StorageLabels(trace_event), st, <<>>)

\* -------------------------------------------------------------- file names
\* A file name is the sequence of its characters.
TraceFile1 == <<"t", "r", "a", "c", "e", ".", "1", ".", "j", "s", "o", "n">>
TraceFile2 == <<"t", "r", "a", "c", "e", ".", "2", ".", "j", "s", "o", "n">>
IgnoredLog == <<"i", "g", "n", "o", "r", "e", "d", ".", "l", "o", "g">>
TraceJson == <<"t", "r", "a", "c", "e", ".", "j", "s", "o", "n">>
Names == {TraceFile1, TraceFile2, IgnoredLog, TraceJson}

starts_with(name, prefix) ==
    Len(name) >= Len(prefix) /\ SubSeq(name, 1, Len(prefix)) = prefix
ends_with(name, suffix) ==
    Len(name) >= Len(suffix)
    /\ SubSeq(name, Len(name) - Len(suffix) + 1, Len(name)) = suffix

\* should_tail_file
should_tail_file(file_name) ==
    starts_with(file_name, <<"t", "r", "a", "c", "e", ".">>)
    /\ ends_with(file_name, <<".", "j", "s", "o", "n">>)

\* the trace files the database writes
Paths == {TraceFile1, TraceFile2}

\* ------------------------------------------------------------------- events
NoEvent == [f \in Fields |-> Absent]

\* the tail tasks that call record, none of them inside it
Tasks == {1, 2}
NoCall ==
    [pc |-> "idle", time |-> F(0), sample |-> F(0), labels |-> <<>>, averaged |-> F(0),
     at |-> 0]
NoRecording == [mutex |-> None, task |-> [t \in Tasks |-> NoCall], blocks |-> <<>>]

\* no bucket list given to the interpolator yet
NoInterp == [buckets |-> <<>>, total_count |-> 0, unit_divisor |-> 0, outs |-> <<>>]

\* a trace event of a type no recorder is configured for
TestTrace ==
    [NoEvent EXCEPT !["Machine"] = Str("m1"), !["Roles"] = Str("storage"),
                    !["Type"] = Str("TestTrace"), !["Severity"] = Str("10")]
\* the same event without its Machine field
NoMachineTrace == [TestTrace EXCEPT !["Machine"] = Absent]

\* ------------------------------------------------------------------- lines
\* The text of one line of a trace file: only whitespace ("ws"), text that is
\* not JSON ("garbage"), or one JSON object ("object", with its members).
\* "empty" is the empty string.
Line(kind, ev) == [kind |-> kind, ev |-> ev]
NoLine == Line("empty", NoEvent)
FileLines == {Line("ws", NoEvent), Line("garbage", NoEvent),
              Line("object", TestTrace), Line("object", NoMachineTrace)}

\* str::trim
trim(line) == IF line.kind = "ws" THEN NoLine ELSE line
is_empty(text) == text.kind = "empty"

\* serde_json::from_str::<TraceEvent>
from_str(text) ==
    IF text.kind = "object" THEN [ok |-> TRUE, v |-> text.ev]
    ELSE [ok |-> FALSE, v |-> NoEvent]

\* handle_log_line counting a rejected event as processed as well
handle_log_line_both(trimmed) ==
    LET parsed == from_str(trimmed)
        out == LogMetricsRecord(metrics, parsed.v, inst)
    IN IF parsed.ok
       THEN /\ inst' = out.inst
            /\ processed_events' = processed_events + 1
            /\ record_errors' = IF out.res.ok THEN record_errors ELSE record_errors + 1
            /\ UNCHANGED parse_errors
       ELSE /\ parse_errors' = parse_errors + 1
            /\ UNCHANGED <<processed_events, record_errors, inst>>

\* ---------------------------------------------------------- handle_log_line
\* The counters and instruments after handle_log_line(trimmed, metrics, exporter_metrics).
handle_log_line(trimmed) ==
    LET parsed == from_str(trimmed)
        out == LogMetricsRecord(metrics, parsed.v, inst)
    IN IF parsed.ok
       THEN /\ inst' = out.inst
            /\ IF out.res.ok
               THEN /\ processed_events' = processed_events + 1
                    /\ UNCHANGED <<parse_errors, record_errors>>
               ELSE /\ record_errors' = record_errors + 1
                    /\ UNCHANGED <<processed_events, parse_errors>>
       ELSE /\ parse_errors' = parse_errors + 1
            /\ UNCHANGED <<processed_events, record_errors, inst>>

\* ------------------------------------------------------------------ tailer
\* pc: "none" (no task), "open" (top of the outer loop), "seek" (reader opened),
\* "read" (top of the inner loop), "handle" (read_line returned a line).
\* reader.open tells whether the task holds a reader; reader.offset is the
\* number of lines of the file that reader is past.
NoReader == [open |-> FALSE, offset |-> 0]
NoTailer == [pc |-> "none", reader |-> NoReader, line |-> NoLine]
NewTailer == [NoTailer EXCEPT !.pc = "open"]

TotalLines == Len(file[TraceFile1]) + Len(file[TraceFile2])

TailerFrame == <<present, tailed, spawned, file, gone, relisted>>
CounterFrame == <<processed_events, parse_errors, record_errors, inst>>
RegistryFrame == <<metrics, event, result, calls, records, samples, interp, config, watcher, app, recording>>

\* fs.open_reader(&path) returns Ok(reader)
OpenOk(p) ==
    /\ tailers[p].pc = "open"
    /\ p \in present
    /\ tailers' = [tailers EXCEPT ![p].pc = "seek",
                                  ![p].reader = [open |-> TRUE, offset |-> 0]]
    /\ UNCHANGED <<TailerFrame, CounterFrame, RegistryFrame, handed, lastSeek>>

\* fs.open_reader(&path) returns Err: sleep 1 s, next iteration of the outer loop
OpenFail(p) ==
    /\ tailers[p].pc = "open"
    /\ UNCHANGED vars

\* seek_to_end that reports success and leaves the reader at the start of the file
SeekOkAtStart(p) ==
    /\ tailers[p].pc = "seek"
    /\ tailers' = [tailers EXCEPT ![p].pc = "read", ![p].line = NoLine]
    /\ lastSeek' = [lastSeek EXCEPT ![p] = Len(file[p])]
    /\ UNCHANGED <<TailerFrame, CounterFrame, RegistryFrame, handed>>

\* reader.seek_to_end() returns Ok: the reader is at the end of the file
SeekOk(p) ==
    /\ tailers[p].pc = "seek"
    /\ tailers' = [tailers EXCEPT ![p].pc = "read",
                                  ![p].reader.offset = Len(file[p]),
                                  ![p].line = NoLine]
    /\ lastSeek' = [lastSeek EXCEPT ![p] = Len(file[p])]
    /\ UNCHANGED <<TailerFrame, CounterFrame, RegistryFrame, handed>>

\* reader.seek_to_end() returns Err: sleep 1 s, `continue` drops the reader
SeekFail(p) ==
    /\ tailers[p].pc = "seek"
    /\ tailers' = [tailers EXCEPT ![p].pc = "open", ![p].reader = NoReader]
    /\ UNCHANGED <<TailerFrame, CounterFrame, RegistryFrame, handed, lastSeek>>

\* read_line that returns the line without moving the reader past it
ReadLineNoAdvance(p) ==
    /\ tailers[p].pc = "read"
    /\ tailers[p].reader.offset < Len(file[p])
    /\ tailers' = [tailers EXCEPT ![p].pc = "handle",
                                  ![p].line = file[p][tailers[p].reader.offset + 1]]
    /\ UNCHANGED <<TailerFrame, CounterFrame, RegistryFrame, handed, lastSeek>>

\* read_line that never returns the last line of the file
ReadLineOffByOne(p) ==
    /\ tailers[p].pc = "read"
    /\ tailers[p].reader.offset + 1 < Len(file[p])
    /\ tailers' = [tailers EXCEPT ![p].pc = "handle",
                                  ![p].line = file[p][tailers[p].reader.offset + 1],
                                  ![p].reader.offset = @ + 1]
    /\ UNCHANGED <<TailerFrame, CounterFrame, RegistryFrame, handed, lastSeek>>

\* reader.read_line(&mut line) returns Ok(n), n > 0: the next line of the file
ReadLine(p) ==
    /\ tailers[p].pc = "read"
    /\ tailers[p].reader.offset < Len(file[p])
    /\ tailers' = [tailers EXCEPT ![p].pc = "handle",
                                  ![p].line = file[p][tailers[p].reader.offset + 1],
                                  ![p].reader.offset = @ + 1]
    /\ UNCHANGED <<TailerFrame, CounterFrame, RegistryFrame, handed, lastSeek>>

\* reader.read_line(&mut line) returns Ok(0): sleep 250 ms, read again
ReadEof(p) ==
    /\ tailers[p].pc = "read"
    /\ tailers[p].reader.offset >= Len(file[p])
    /\ UNCHANGED vars

\* a read error answered by rewinding the reader instead of reopening the file
ReadFailRewind(p) ==
    /\ tailers[p].pc = "read"
    /\ tailers' = [tailers EXCEPT ![p].reader.offset = 0]
    /\ UNCHANGED <<TailerFrame, CounterFrame, RegistryFrame, handed, lastSeek>>

\* reader.read_line(&mut line) returns Err: sleep 1 s, `break` to the outer loop
ReadFail(p) ==
    /\ tailers[p].pc = "read"
    /\ tailers' = [tailers EXCEPT ![p].pc = "open", ![p].reader = NoReader]
    /\ UNCHANGED <<TailerFrame, CounterFrame, RegistryFrame, handed, lastSeek>>

\* a tailer that leaves the inner loop when the line did not parse
AfterLineAbort(t, trimmed) ==
    IF from_str(trimmed).ok \/ is_empty(trimmed)
    THEN [t EXCEPT !.pc = "read", !.line = NoLine]
    ELSE [t EXCEPT !.pc = "open", !.line = NoLine, !.reader = NoReader]

\* where the tailer is after the Ok(_) arm: handle_log_line returns (), so nothing
\* about the line decides it; the next iteration starts with line.clear()
AfterLine(t, trimmed) == [t EXCEPT !.pc = "read", !.line = NoLine]

\* the Ok(_) arm: trim, skip an empty line, else handle_log_line; then line.clear()
HandleLine(p) ==
    /\ tailers[p].pc = "handle"
    /\ LET trimmed == trim(tailers[p].line)
       IN IF is_empty(trimmed)
          THEN UNCHANGED <<CounterFrame, handed>>
          ELSE /\ handle_log_line(trimmed)
               /\ handed' = [handed EXCEPT ![p] = Append(@, tailers[p].reader.offset)]
    /\ tailers' = [tailers EXCEPT ![p] = AfterLine(@, trim(tailers[p].line))]
    /\ UNCHANGED <<TailerFrame, RegistryFrame, lastSeek>>

\* ----------------------------------------------------------------- watcher
\* watch_logs has spawned run_log_directory on an existing directory of files
Running ==
    [pc |-> "run", dir |-> TRUE, created |-> FALSE, subdirs |-> {}, failures |-> 0,
     at_failure |-> {}, faults |-> 0, fault_kinds |-> {}]

\* an insert that reports every path as new
insert_always_new(set, path) == TRUE

\* tailed.insert(path) returns true iff the path was not in the set
insert_is_new(set, path) == path \notin set

\* RealTraceFileSystem::read_dir returning Ok: the entries that are files
read_dir == present \ watcher.subdirs

\* one iteration of run_log_directory's loop with read_dir returning Ok(entries)
PollOk ==
    LET new == {path \in read_dir : should_tail_file(path) /\ insert_is_new(tailed, path)}
    IN /\ tailed' = tailed \cup new
       /\ spawned' = [n \in Names |-> IF n \in new THEN spawned[n] + 1 ELSE spawned[n]]
       /\ tailers' = [n \in Names |-> IF n \in new THEN NewTailer ELSE tailers[n]]
       /\ UNCHANGED <<present, file, handed, lastSeek, CounterFrame, RegistryFrame>>

\* the iteration, with and without the watcher's history being kept
Poll == PollOk /\ UNCHANGED <<gone, relisted>>
PollObserved == PollOk /\ relisted' = relisted \cup (gone \cap present) /\ UNCHANGED gone

\* one iteration with read_dir returning Err: warn, sleep, list again
PollFail == UNCHANGED vars

\* -------------------------------------------------------------- environment
\* a trace file appears in the log directory
CreateFile(n) ==
    /\ n \notin present
    /\ present' = present \cup {n}
    /\ UNCHANGED <<tailed, spawned, tailers, file, gone, relisted, handed, lastSeek,
                   CounterFrame, RegistryFrame>>

\* a trace file leaves the directory listing (moved away; its content is kept)
Unlink(n) ==
    /\ n \in present
    /\ present' = present \ {n}
    /\ UNCHANGED <<tailed, spawned, tailers, file, handed, lastSeek,
                   CounterFrame, RegistryFrame>>

RemoveFile(n) == Unlink(n) /\ UNCHANGED <<gone, relisted>>
RemoveFileObserved(n) ==
    /\ Unlink(n)
    /\ gone' = IF n \in tailed THEN gone \cup {n} ELSE gone
    /\ UNCHANGED relisted

\* the database appends one complete line to a trace file
AppendLine(p, l) ==
    /\ p \in present
    /\ TotalLines < MaxLines
    /\ file' = [file EXCEPT ![p] = Append(@, l)]
    /\ UNCHANGED <<present, tailed, spawned, tailers, gone, relisted, handed, lastSeek,
                   CounterFrame, RegistryFrame>>

\* ------------------------------------------------------------ specification
Init ==
    /\ present = {IgnoredLog}
    /\ tailed = {}
    /\ spawned = [n \in Names |-> 0]
    /\ tailers = [n \in Names |-> NoTailer]
    /\ file = [n \in Names |-> <<>>]
    /\ gone = {}
    /\ relisted = {}
    /\ handed = [n \in Names |-> <<>>]
    /\ lastSeek = [n \in Names |-> -1]
    /\ processed_events = 0
    /\ parse_errors = 0
    /\ record_errors = 0
    /\ metrics = LogMetricsNew(<<SimpleFDBGauge("StorageMetrics", "Version")>>)
    /\ inst = EmptyInst
    /\ event = NoEvent
    /\ result = Ok
    /\ calls = <<>>
    /\ records = 0
    /\ samples = <<>>
    /\ interp = NoInterp
    /\ config = NoConfig
    /\ watcher = Running
    /\ app = NoApp
    /\ recording = NoRecording

Next ==
    \/ Poll
    \/ PollFail
    \/ \E p \in Paths : CreateFile(p)
    \/ \E p \in Paths : RemoveFile(p)
    \/ \E p \in Paths, l \in FileLines : AppendLine(p, l)
    \/ \E p \in Paths : OpenOk(p)
    \/ \E p \in Paths : OpenFail(p)
    \/ \E p \in Paths : SeekOk(p)
    \/ \E p \in Paths : SeekFail(p)
    \/ \E p \in Paths : ReadLine(p)
    \/ \E p \in Paths : ReadEof(p)
    \/ \E p \in Paths : ReadFail(p)
    \/ \E p \in Paths : HandleLine(p)

Spec == Init /\ [][Next]_vars

\* The watcher with its history: files come and go, the watcher polls, and the
\* tail tasks it spawned open their files.
NextWatch ==
    \/ PollObserved
    \/ PollFail
    \/ \E n \in Names : CreateFile(n)
    \/ \E n \in Names : RemoveFileObserved(n)
    \/ \E p \in Paths : OpenOk(p)
    \/ \E p \in Paths : OpenFail(p)
    \/ \E p \in Paths : SeekOk(p)
    \/ \E p \in Paths : SeekFail(p)

WatchSpec == Init /\ [][NextWatch]_vars

\* One trace file and its tailer, under the scheduler's fairness: a task that
\* can take a step of its loop is eventually run, and a read of a file that
\* has unread lines returns one of them unless it fails.
NextTail ==
    \/ Poll
    \/ PollFail
    \/ CreateFile(TraceFile1)
    \/ RemoveFile(TraceFile1)
    \/ \E l \in FileLines : AppendLine(TraceFile1, l)
    \/ OpenOk(TraceFile1)
    \/ OpenFail(TraceFile1)
    \/ SeekOk(TraceFile1)
    \/ SeekFail(TraceFile1)
    \/ ReadLine(TraceFile1)
    \/ ReadEof(TraceFile1)
    \/ ReadFail(TraceFile1)
    \/ HandleLine(TraceFile1)

FairSpec ==
    /\ Init
    /\ [][NextTail]_vars
    /\ WF_vars(Poll)
    /\ WF_vars(OpenOk(TraceFile1))
    /\ WF_vars(SeekOk(TraceFile1))
    /\ WF_vars(ReadLine(TraceFile1))
    /\ WF_vars(HandleLine(TraceFile1))

\* ---------------------------------------------------- the registry, directly
\* the gauge configurations the registry is built from
Configs ==
    { <<>>,
      <<SimpleFDBGauge("StorageMetrics", "Version")>>,
      <<TotalCounterFDBGauge("StorageMetrics", "Version"),
        RateCounterFDBGauge("StorageMetrics", "Version")>>,
      <<ElapsedRateFDBGauge("StorageMetrics", "Version"),
        HistogramPercentileFDBGauge("StorageServer", "Read", [n |-> 1, d |-> 2])>> }

\* the events handed to the registry
RegEvents ==
    { [NoEvent EXCEPT !["Machine"] = machine, !["Roles"] = roles, !["Type"] = type,
                      !["Severity"] = severity, !["Version"] = version,
                      !["Time"] = Str("100"), !["Elapsed"] = Str("2"),
                      !["Group"] = Str("StorageServer"), !["Op"] = Str("Read"),
                      !["Unit"] = Str("milliseconds"), !["TotalCount"] = Str("0")] :
        machine \in {Absent, Num("1"), Str("m1")},
        roles \in {Absent, Str("storage")},
        type \in {Absent, Str("StorageMetrics"), Str("TestTrace"), Str("Histogram")},
        severity \in {Absent, Num("10"), Str("abc"), Str("5"), Str("10"), Str("20")},
        version \in {Absent, Str("5"), Str("1 2 3")} }
    \cup { [NoEvent EXCEPT !["Machine"] = Str("m1"), !["Roles"] = Num("1"),
                           !["Type"] = Str("StorageMetrics"), !["Severity"] = Str("10"),
                           !["Version"] = Str("5"), !["Time"] = Str("100"),
                           !["Elapsed"] = Str("2")] }

InitReg ==
    /\ present = {IgnoredLog}
    /\ tailed = {}
    /\ spawned = [n \in Names |-> 0]
    /\ tailers = [n \in Names |-> NoTailer]
    /\ file = [n \in Names |-> <<>>]
    /\ gone = {}
    /\ relisted = {}
    /\ handed = [n \in Names |-> <<>>]
    /\ lastSeek = [n \in Names |-> -1]
    /\ processed_events = 0
    /\ parse_errors = 0
    /\ record_errors = 0
    /\ metrics \in {LogMetricsNew(configs) : configs \in Configs}
    /\ inst = EmptyInst
    /\ event = NoEvent
    /\ result = Ok
    /\ calls = <<>>
    /\ records = 0
    /\ samples = <<>>
    /\ interp = NoInterp
    /\ config = NoConfig
    /\ watcher = Running
    /\ app = NoApp
    /\ recording = NoRecording

\* handle_log_line on the text of one JSON object, keeping what
\* LogMetrics::record was given, what it returned and whom it invoked
RecordEvent(ev) ==
    /\ records < MaxRecords
    /\ records' = records + 1
    /\ handle_log_line(Line("object", ev))
    /\ event' = ev
    /\ result' = LogMetricsRecord(metrics, ev, inst).res
    /\ calls' = LogMetricsRecord(metrics, ev, inst).calls
    /\ UNCHANGED <<present, tailed, spawned, tailers, file, gone, relisted, handed,
                   lastSeek, metrics, samples, interp, config, watcher, app, recording>>

NextReg == \E ev \in RegEvents : RecordEvent(ev)

SpecReg == InitReg /\ [][NextReg]_vars

\* ------------------------------------------------- one recorder, directly
\* the recorders record is called on
Recorders ==
    { SimpleFDBGauge("StorageMetrics", "Version"),
      TotalCounterFDBGauge("StorageMetrics", "BytesInput"),
      RateCounterFDBGauge("StorageMetrics", "BytesInput"),
      ElapsedRateFDBGauge("StorageMetrics", "Version"),
      HistogramPercentileFDBGauge("StorageServer", "Read", [n |-> 1, d |-> 2]),
      SlowTaskCounter(500) }

\* an event every recorder accepts when its Type is the recorder's
BaseEvent ==
    [NoEvent EXCEPT !["Machine"] = Str("m1"), !["Type"] = Str("StorageMetrics"),
                    !["Severity"] = Str("10"), !["Time"] = Str("100"),
                    !["Version"] = Str("5"), !["BytesInput"] = Str("1 2 3"),
                    !["Elapsed"] = Str("2"), !["Duration"] = Str("1.5"),
                    !["Group"] = Str("StorageServer"), !["Op"] = Str("Read"),
                    !["Unit"] = Str("milliseconds"), !["TotalCount"] = Str("10"),
                    !["LessThan2"] = Str("5"), !["LessThan4"] = Str("5")]

\* the values one field of the base event is replaced by
Variants ==
    [f \in Fields |->
        CASE f = "Version" -> {Absent, Num("5"), Str("abc")}
          [] f = "BytesInput" -> {Absent, Str("1  2 3"), Str("1 2"), Str("7 8"), Str("7"),
                                  Str("abc 2 3"), Str("")}
          [] f = "Time" -> {Absent, Str("abc")}
          [] f = "Elapsed" -> {Absent, Str("abc")}
          [] f = "Duration" -> {Absent, Num("1"), Str("abc"), Str("0.5"), Str("0.25")}
          [] f = "TotalCount" -> {Absent, Str("abc"), Str("0")}
          [] f = "LessThan2" -> {Absent, Num("5"), Str("abc")}
          [] f = "LessThan8" -> {Str("5")}
          [] f = "Group" -> {Absent, Str("Other")}
          [] f = "Op" -> {Absent, Str("Other")}
          [] f = "Unit" -> {Absent, Str("other"), Str("count")}
          [] OTHER -> {}]

\* the Type values of the events
EventTypes ==
    {Absent, Num("5"), Str("StorageMetrics"), Str("SlowTask"), Str("Histogram"),
     Str("TestTrace")}

\* the events a recorder is given: the base event, the base event with one
\* field replaced, and the event with nothing but its Type, under every Type
RecEvents ==
    { [body EXCEPT !["Type"] = type] :
        type \in EventTypes,
        body \in {BaseEvent, NoEvent,
                  [BaseEvent EXCEPT !["LessThan2"] = Absent, !["LessThan4"] = Absent]}
                 \cup {[BaseEvent EXCEPT ![fv[1]] = fv[2]] :
                          fv \in UNION {{<<f, v>> : v \in Variants[f]} : f \in Fields}} }

\* the labels LogMetrics::record passes for the base event
RecLabels == <<KeyValue("machine", "m1")>>

\* the Type a recorder matches
MatchingType(r) ==
    CASE r.kind = "Histogram" -> "Histogram"
      [] r.kind = "SlowTask" -> "SlowTask"
      [] OTHER -> r.trace_type

\* the instruments after the recorder took one event of its Type
PrimedInst(r) ==
    FDBMetricRecord(1, r, [BaseEvent EXCEPT !["Type"] = Str(MatchingType(r))],
                    RecLabels, EmptyInst).inst

InitRec ==
    /\ present = {IgnoredLog}
    /\ tailed = {}
    /\ spawned = [n \in Names |-> 0]
    /\ tailers = [n \in Names |-> NoTailer]
    /\ file = [n \in Names |-> <<>>]
    /\ gone = {}
    /\ relisted = {}
    /\ handed = [n \in Names |-> <<>>]
    /\ lastSeek = [n \in Names |-> -1]
    /\ processed_events = 0
    /\ parse_errors = 0
    /\ record_errors = 0
    /\ metrics \in {<<r>> : r \in Recorders}
    /\ inst \in {EmptyInst, PrimedInst(metrics[1])}
    /\ event = NoEvent
    /\ result = Ok
    /\ calls = <<>>
    /\ records = 0
    /\ samples = <<>>
    /\ interp = NoInterp
    /\ config = NoConfig
    /\ watcher = Running
    /\ app = NoApp
    /\ recording = NoRecording

\* metric.record(trace_event, labels) on the one recorder
RecordDirect(ev) ==
    /\ records < MaxRecords
    /\ records' = records + 1
    /\ event' = ev
    /\ result' = FDBMetricRecord(1, metrics[1], ev, RecLabels, inst).res
    /\ inst' = FDBMetricRecord(1, metrics[1], ev, RecLabels, inst).inst
    /\ calls' = <<1>>
    /\ UNCHANGED <<present, tailed, spawned, tailers, file, gone, relisted, handed,
                   lastSeek, metrics, processed_events, parse_errors, record_errors,
                   samples, interp, config, watcher, app, recording>>

NextRec == \E ev \in RecEvents : RecordDirect(ev)

SpecRec == InitRec /\ [][NextRec]_vars

\* ------------------------------------------- a smoothing recorder, directly
\* the recorders that keep a rolling window
SmoothingRecorders ==
    { SimpleFDBGauge("StorageMetrics", "Version"),
      RateCounterFDBGauge("StorageMetrics", "BytesInput"),
      ElapsedRateFDBGauge("StorageMetrics", "Version") }

\* the Time values and the values of the samples
SampleTimes == {"84", "85", "100", "101", "115", "116"}
SampleValues == {"5", "10"}

\* a matching event that carries the value v at time t
SampleEvent(r, t, v) ==
    [BaseEvent EXCEPT !["Time"] = Str(t),
                      ![r.field_name] =
                          Str(IF r.kind = "RateCounter" THEN v \o " 0 0" ELSE v)]

\* the sample the recorder takes from that event
SampleOf(r, v) ==
    IF r.kind = "ElapsedRate"
    THEN FDiv(Unwrap(parse_f64(v)), Unwrap(parse_f64(BaseEvent["Elapsed"].s)))
    ELSE Unwrap(parse_f64(v))

InitSmooth ==
    /\ present = {IgnoredLog}
    /\ tailed = {}
    /\ spawned = [n \in Names |-> 0]
    /\ tailers = [n \in Names |-> NoTailer]
    /\ file = [n \in Names |-> <<>>]
    /\ gone = {}
    /\ relisted = {}
    /\ handed = [n \in Names |-> <<>>]
    /\ lastSeek = [n \in Names |-> -1]
    /\ processed_events = 0
    /\ parse_errors = 0
    /\ record_errors = 0
    /\ metrics \in {<<r>> : r \in SmoothingRecorders}
    /\ inst = EmptyInst
    /\ event = NoEvent
    /\ result = Ok
    /\ calls = <<>>
    /\ records = 0
    /\ samples = <<>>
    /\ interp = NoInterp
    /\ config = NoConfig
    /\ watcher = Running
    /\ app = NoApp
    /\ recording = NoRecording

\* metric.record on a matching event; the gauge holds the emitted value
RecordSample(t, v) ==
    LET ev == SampleEvent(metrics[1], t, v)
        out == FDBMetricRecord(1, metrics[1], ev, RecLabels, inst)
    IN /\ Len(samples) < MaxSamples
       /\ event' = ev
       /\ result' = out.res
       /\ inst' = out.inst
       /\ calls' = <<1>>
       /\ samples' = Append(samples, [time |-> Unwrap(parse_f64(t)),
                                      value |-> SampleOf(metrics[1], v),
                                      emitted |-> out.inst.gauge[<<1, RecLabels>>]])
       /\ UNCHANGED <<present, tailed, spawned, tailers, file, gone, relisted, handed,
                      lastSeek, metrics, processed_events, parse_errors, record_errors,
                      records, interp, config, watcher, app, recording>>

NextSmooth == \E t \in SampleTimes, v \in SampleValues : RecordSample(t, v)

SpecSmooth == InitSmooth /\ [][NextSmooth]_vars

\* --------------------------------------------- the interpolator, directly
\* The interpolator is applied, for several percentiles, to one bucket list
\* that record builds from the LessThan entries of an event.
HistBounds == {2, 3, 4, 8}
HistCounts == {0, 5}
TotalCounts == {5, 10}
Percentiles == {[n |-> 0, d |-> 1], [n |-> 1, d |-> 4], [n |-> 1, d |-> 2],
                [n |-> 11, d |-> 20], [n |-> 9, d |-> 10], [n |-> 1, d |-> 1]}

\* the non-empty `hist` maps over HistBounds
Hists == UNION {[bounds -> HistCounts] : bounds \in (SUBSET HistBounds) \ {{}}}

InitInterp ==
    /\ present = {IgnoredLog}
    /\ tailed = {}
    /\ spawned = [n \in Names |-> 0]
    /\ tailers = [n \in Names |-> NoTailer]
    /\ file = [n \in Names |-> <<>>]
    /\ gone = {}
    /\ relisted = {}
    /\ handed = [n \in Names |-> <<>>]
    /\ lastSeek = [n \in Names |-> -1]
    /\ processed_events = 0
    /\ parse_errors = 0
    /\ record_errors = 0
    /\ metrics = <<>>
    /\ inst = EmptyInst
    /\ event = NoEvent
    /\ result = Ok
    /\ calls = <<>>
    /\ records = 0
    /\ samples = <<>>
    /\ interp \in {[buckets |-> BuildBuckets(hist_iter(hist)), total_count |-> total_count,
                    unit_divisor |-> divisor(unit), outs |-> <<>>] :
                      hist \in Hists, total_count \in TotalCounts, unit \in HistogramUnits}
    /\ config = NoConfig
    /\ watcher = Running
    /\ app = NoApp
    /\ recording = NoRecording

\* interpolate_exponential_percentile(&buckets, total_count, percentile,
\* unit_divisor); `index` is the bucket the loop picks (the last bucket for
\* percentile >= 1, where the function returns before the loop)
Interpolate(percentile) ==
    /\ Len(interp.outs) < MaxPercentiles
    /\ interp' = [interp EXCEPT !.outs = Append(@,
          [percentile |-> percentile,
           index |-> IF percentile.n >= percentile.d THEN Len(interp.buckets)
                     ELSE TargetIndex(interp.buckets, interp.total_count, percentile),
           value |-> interpolate_exponential_percentile(interp.buckets, interp.total_count,
                                                        percentile, interp.unit_divisor)])]
    /\ UNCHANGED <<present, tailed, spawned, tailers, file, gone, relisted, handed,
                   lastSeek, metrics, processed_events, parse_errors, record_errors,
                   inst, event, result, calls, records, samples, config, watcher, app, recording>>

NextInterp == \E percentile \in Percentiles : Interpolate(percentile)

SpecInterp == InitInterp /\ [][NextInterp]_vars

\* ------------------------------------------------ the config loader, directly
\* sequences over S of at most n elements
SeqsUpTo(S, n) == UNION {[1..k -> S] : k \in 0..n}

\* a section entry: a TOML table with the fields of GaugeConfigEntry or of
\* HistogramGaugeConfigEntry, or with one of them missing
ConfigEntry(complete, trace_type, gauge_name, field_name, description) ==
    [complete |-> complete, trace_type |-> trace_type, gauge_name |-> gauge_name,
     field_name |-> field_name, description |-> description, group |-> "", op |-> "",
     percentiles |-> <<>>]
HistogramConfigEntry(group, op, gauge_name, description, percentiles) ==
    [complete |-> TRUE, trace_type |-> "", gauge_name |-> gauge_name, field_name |-> "",
     description |-> description, group |-> group, op |-> op, percentiles |-> percentiles]

StandardEntries ==
    {ConfigEntry(TRUE, "StorageMetrics", "ss_version", "Version", "Storage version"),
     ConfigEntry(FALSE, "StorageMetrics", "", "Version", "Storage version")}

\* percentile lists: one, several, none, and lists with a percentile above 1,
\* below 0, or not finite (d = 0)
ValidPercentileLists ==
    {<<[n |-> 1, d |-> 2]>>, <<[n |-> 1, d |-> 2], [n |-> 99, d |-> 100]>>,
     <<[n |-> 995, d |-> 1000], [n |-> 123, d |-> 1000000], [n |-> 9, d |-> 10]>>,
     <<F(1), F(0)>>}
InvalidPercentileLists ==
    {<<>>, <<[n |-> 1, d |-> 2], [n |-> 3, d |-> 2]>>,
     <<[n |-> 0 - 1, d |-> 10], [n |-> 1, d |-> 2]>>, <<[n |-> 1, d |-> 0]>>}
HistogramEntries ==
    {HistogramConfigEntry("ReadLatency", "read", "ss_read_latency_seconds", "Read latency",
                          percentiles) : percentiles \in ValidPercentileLists}
    \cup {HistogramConfigEntry("CommitLatency", "commit", "commit_latency_seconds",
                               "Commit latency", percentiles) :
             percentiles \in InvalidPercentileLists}

SectionNames == {"simple_gauge", "counter_rate_gauge", "histogram_percentile_gauge", "unrelated"}
Section(section, is_array, entries) ==
    [section |-> section, is_array |-> is_array, entries |-> entries]

\* the values a section of the name may have
SectionsNamed(section) ==
    CASE section = "simple_gauge" ->
            {Section(section, FALSE, <<>>)}
            \cup {Section(section, TRUE, entries) :
                     entries \in SeqsUpTo(StandardEntries, MaxEntries)}
      [] section = "counter_rate_gauge" ->
            {Section(section, TRUE,
                     <<ConfigEntry(TRUE, "ProxyMetrics", "proxy_txn_rate", "TxnCommitOut",
                                   "Commit rate")>>)}
      [] section = "histogram_percentile_gauge" ->
            {Section(section, FALSE, <<>>)}
            \cup {Section(section, TRUE, entries) :
                     entries \in SeqsUpTo(HistogramEntries, MaxEntries)}
      [] OTHER -> {Section(section, FALSE, <<>>)}

\* the tables whose sections have the names, in their order
RECURSIVE TablesNamed(_)
TablesNamed(names) ==
    IF names = <<>> THEN {<<>>}
    ELSE {<<first>> \o rest : first \in SectionsNamed(Head(names)),
                              rest \in TablesNamed(Tail(names))}

\* a table has each key once
TableNames ==
    {names \in SeqsUpTo(SectionNames, MaxSections) :
        \A j, k \in DOMAIN names : j # k => names[j] # names[k]}

InitConfig ==
    /\ present = {}
    /\ tailed = {}
    /\ spawned = [n \in Names |-> 0]
    /\ tailers = [n \in Names |-> NoTailer]
    /\ file = [n \in Names |-> <<>>]
    /\ gone = {}
    /\ relisted = {}
    /\ handed = [n \in Names |-> <<>>]
    /\ lastSeek = [n \in Names |-> -1]
    /\ processed_events = 0
    /\ parse_errors = 0
    /\ record_errors = 0
    /\ metrics = <<>>
    /\ inst = EmptyInst
    /\ event = NoEvent
    /\ result = Ok
    /\ calls = <<>>
    /\ records = 0
    /\ samples = <<>>
    /\ interp = NoInterp
    /\ \/ \E state \in {"missing", "empty", "whitespace", "malformed"} :
             config = [NoConfig EXCEPT !.file = ConfigFile(state, <<>>)]
       \/ \E names \in TableNames : \E table \in TablesNamed(names) :
             config = [NoConfig EXCEPT !.file = ConfigFile("table", table)]
    /\ watcher = Running
    /\ app = NoApp
    /\ recording = NoRecording

\* read_gauge_config_file(&config_path)
ReadConfig ==
    /\ ~config.read
    /\ config' = [config EXCEPT !.read = TRUE, !.out = read_gauge_config_file(config.file)]
    /\ UNCHANGED <<present, tailed, spawned, tailers, file, gone, relisted, handed,
                   lastSeek, metrics, processed_events, parse_errors, record_errors,
                   inst, event, result, calls, records, samples, interp, watcher, app, recording>>

NextConfig == ReadConfig

SpecConfig == InitConfig /\ [][NextConfig]_vars

\* ------------------------------------------------------ watch_logs, from start
\* the recorder LogMetrics::new builds for a gauge definition
RecorderOf(gauge) ==
    CASE gauge.variant = "Simple" -> SimpleFDBGauge(gauge.trace_type, gauge.field_name)
      [] gauge.variant = "CounterTotal" ->
            TotalCounterFDBGauge(gauge.trace_type, gauge.field_name)
      [] gauge.variant = "CounterRate" ->
            RateCounterFDBGauge(gauge.trace_type, gauge.field_name)
      [] gauge.variant = "ElapsedRate" ->
            ElapsedRateFDBGauge(gauge.trace_type, gauge.field_name)
      [] gauge.variant = "HistogramPercentile" ->
            HistogramPercentileFDBGauge(gauge.group, gauge.op, gauge.percentile)

\* the gauge config files watch_logs starts with
BootConfigFiles ==
    {ConfigFile("missing", <<>>),
     ConfigFile("table",
        <<Section("simple_gauge", TRUE,
                  <<ConfigEntry(TRUE, "StorageMetrics", "ss_version", "Version",
                                "Storage version")>>)>>),
     ConfigFile("table",
        <<Section("histogram_percentile_gauge", TRUE,
                  <<HistogramConfigEntry("ReadLatency", "read", "ss_read_latency_seconds",
                                         "Read latency", <<[n |-> 3, d |-> 2]>>)>>)>>)}

\* watch_logs is called: nothing is loaded, no task is spawned; the log
\* directory exists (empty) or not
InitBoot ==
    /\ present = {}
    /\ tailed = {}
    /\ spawned = [n \in Names |-> 0]
    /\ tailers = [n \in Names |-> NoTailer]
    /\ file = [n \in Names |-> <<>>]
    /\ gone = {}
    /\ relisted = {}
    /\ handed = [n \in Names |-> <<>>]
    /\ lastSeek = [n \in Names |-> -1]
    /\ processed_events = 0
    /\ parse_errors = 0
    /\ record_errors = 0
    /\ metrics = <<>>
    /\ inst = EmptyInst
    /\ event = NoEvent
    /\ result = Ok
    /\ calls = <<>>
    /\ records = 0
    /\ samples = <<>>
    /\ interp = NoInterp
    /\ config \in {[NoConfig EXCEPT !.file = toml_config] : toml_config \in BootConfigFiles}
    /\ watcher \in {[Running EXCEPT !.pc = "load", !.dir = dir] : dir \in BOOLEAN}
    /\ app = NoApp
    /\ recording = NoRecording

BootFrame ==
    <<present, tailed, spawned, tailers, file, gone, relisted, handed, lastSeek,
      processed_events, parse_errors, record_errors, inst, event, result, calls, records,
      samples, interp, app, recording>>

\* LogMetrics::new(&meter).with_context(..)?: the config is read; an error
\* returns from watch_logs, else the recorders are built
LoadMetrics ==
    /\ watcher.pc = "load"
    /\ config' = [config EXCEPT !.read = TRUE, !.out = read_gauge_config_file(config.file)]
    /\ IF read_gauge_config_file(config.file).ok
       THEN /\ metrics' = LogMetricsNew([k \in DOMAIN read_gauge_config_file(config.file).gauges
                                           |-> RecorderOf(read_gauge_config_file(config.file).gauges[k])])
            /\ watcher' = [watcher EXCEPT !.pc = "mkdir"]
       ELSE /\ watcher' = [watcher EXCEPT !.pc = "failed"]
            /\ UNCHANGED metrics
    /\ UNCHANGED BootFrame

\* a failed create_dir_all that watch_logs goes on from
CreateDirFailIgnored ==
    /\ watcher.pc = "mkdir"
    /\ ~watcher.dir
    /\ watcher' = [watcher EXCEPT !.pc = "run"]
    /\ UNCHANGED <<BootFrame, metrics, config>>

\* fs.create_dir_all(log_dir_path).await returns Ok (the directory existed or
\* was created); tokio::spawn(run_log_directory(..)); Ok(())
CreateDirOk ==
    /\ watcher.pc = "mkdir"
    /\ watcher' = [watcher EXCEPT !.pc = "run", !.dir = TRUE, !.created = ~watcher.dir]
    /\ UNCHANGED <<BootFrame, metrics, config>>

\* fs.create_dir_all(log_dir_path).await returns Err: watch_logs returns it
CreateDirFail ==
    /\ watcher.pc = "mkdir"
    /\ ~watcher.dir
    /\ watcher' = [watcher EXCEPT !.pc = "failed"]
    /\ UNCHANGED <<BootFrame, metrics, config>>

\* an iteration of the spawned run_log_directory with read_dir returning Ok
PollSpawned == watcher.pc = "run" /\ PollOk /\ UNCHANGED <<gone, relisted>>

\* an iteration whose Err arm ends the loop
PollFailAborts ==
    /\ watcher.pc = "run"
    /\ watcher.failures < MaxFaults
    /\ watcher' = [watcher EXCEPT !.pc = "failed", !.failures = @ + 1,
                                  !.at_failure = tailed]
    /\ UNCHANGED <<BootFrame, metrics, config>>

\* an iteration with read_dir returning Err after which the task is over
PollFailEnds ==
    /\ watcher.pc = "run"
    /\ watcher.failures < MaxFaults
    /\ watcher' = [watcher EXCEPT !.pc = "done", !.failures = @ + 1,
                                  !.at_failure = tailed]
    /\ UNCHANGED <<BootFrame, metrics, config>>

\* an iteration with read_dir returning Err, counted: warn, then the sleep
\* at the end of the loop body, and the loop lists again
PollFailCounted ==
    /\ watcher.pc = "run"
    /\ watcher.failures < MaxFaults
    /\ watcher' = [watcher EXCEPT !.failures = @ + 1, !.at_failure = tailed]
    /\ UNCHANGED <<BootFrame, metrics, config>>

\* an entry appears in the log directory: a file, or a directory
CreateEntry(n, is_dir) ==
    /\ watcher.dir
    /\ n \notin present
    /\ present' = present \cup {n}
    /\ watcher' = [watcher EXCEPT !.subdirs = IF is_dir THEN @ \cup {n} ELSE @]
    /\ UNCHANGED <<tailed, spawned, tailers, file, gone, relisted, handed, lastSeek,
                   CounterFrame, metrics, event, result, calls, records, samples, interp,
                   config, app, recording>>

\* an entry leaves the log directory
RemoveEntry(n) ==
    /\ n \in present
    /\ present' = present \ {n}
    /\ watcher' = [watcher EXCEPT !.subdirs = @ \ {n}]
    /\ UNCHANGED <<tailed, spawned, tailers, file, gone, relisted, handed, lastSeek,
                   CounterFrame, metrics, event, result, calls, records, samples, interp,
                   config, app, recording>>

NextBoot ==
    \/ LoadMetrics
    \/ CreateDirOk
    \/ CreateDirFail
    \/ PollSpawned
    \/ PollFailCounted
    \/ \E n \in Names : CreateEntry(n, FALSE)
    \/ CreateEntry(TraceFile2, TRUE)
    \/ \E n \in Names : RemoveEntry(n)
    \/ \E n \in Names : OpenOk(n)
    \/ \E n \in Names : OpenFail(n)

BootSpec == InitBoot /\ [][NextBoot]_vars

\* The spawned watcher and the entries of the log directory, which come and
\* go; read_dir fails finitely often.
NextListing ==
    \/ PollSpawned
    \/ PollFailCounted
    \/ \E n \in Names : CreateEntry(n, FALSE)
    \/ CreateEntry(TraceFile2, TRUE)
    \/ \E n \in Names : RemoveEntry(n)

\* the loop of run_log_directory has no exit and sleeps a finite poll
\* interval, so a listing that can succeed eventually does
ListingSpec == Init /\ [][NextListing]_vars /\ WF_vars(PollSpawned)

\* ------------------------------------------------- one tailer and its failures
\* what no step of the tailer or of the database on its file changes
RetryFrame ==
    <<present, tailed, spawned, gone, relisted, metrics, event, result, calls, records,
      samples, interp, config, app, recording>>

\* one more failed call of the kind
Faulted(kind) ==
    [watcher EXCEPT !.faults = @ + 1, !.fault_kinds = @ \cup {kind}]

\* the watcher has spawned the tailer of trace.1.json
InitRetry ==
    /\ present = {TraceFile1}
    /\ tailed = {TraceFile1}
    /\ spawned = [n \in Names |-> IF n = TraceFile1 THEN 1 ELSE 0]
    /\ tailers = [n \in Names |-> IF n = TraceFile1 THEN NewTailer ELSE NoTailer]
    /\ file = [n \in Names |-> <<>>]
    /\ gone = {}
    /\ relisted = {}
    /\ handed = [n \in Names |-> <<>>]
    /\ lastSeek = [n \in Names |-> -1]
    /\ processed_events = 0
    /\ parse_errors = 0
    /\ record_errors = 0
    /\ metrics = LogMetricsNew(<<SimpleFDBGauge("StorageMetrics", "Version")>>)
    /\ inst = EmptyInst
    /\ event = NoEvent
    /\ result = Ok
    /\ calls = <<>>
    /\ records = 0
    /\ samples = <<>>
    /\ interp = NoInterp
    /\ config = NoConfig
    /\ watcher = Running
    /\ app = NoApp
    /\ recording = NoRecording

\* fs.open_reader(&path) returns Err, counted: warn, sleep 1 s, next iteration
OpenFailCounted(p) ==
    /\ tailers[p].pc = "open"
    /\ watcher.faults < MaxFaults
    /\ watcher' = Faulted("open")
    /\ UNCHANGED <<RetryFrame, CounterFrame, tailers, file, handed, lastSeek>>

\* reader.seek_to_end() returns Err, counted: sleep 1 s, `continue` drops the reader
SeekFailCounted(p) ==
    /\ tailers[p].pc = "seek"
    /\ watcher.faults < MaxFaults
    /\ tailers' = [tailers EXCEPT ![p].pc = "open", ![p].reader = NoReader]
    /\ watcher' = Faulted("seek")
    /\ UNCHANGED <<RetryFrame, CounterFrame, file, handed, lastSeek>>

\* a read error after which the inner loop goes on with the same reader
ReadFailKeepsReader(p) ==
    /\ tailers[p].pc = "read"
    /\ watcher.faults < MaxFaults
    /\ watcher' = Faulted("read")
    /\ UNCHANGED <<RetryFrame, CounterFrame, tailers, file, handed, lastSeek>>

\* a read error on which the task returns
ReadFailReturns(p) ==
    /\ tailers[p].pc = "read"
    /\ watcher.faults < MaxFaults
    /\ tailers' = [tailers EXCEPT ![p] = NoTailer]
    /\ watcher' = Faulted("read")
    /\ UNCHANGED <<RetryFrame, CounterFrame, file, handed, lastSeek>>

\* reader.read_line(&mut line) returns Err, counted: sleep 1 s, `break` to
\* the outer loop, which drops the reader
ReadFailCounted(p) ==
    /\ tailers[p].pc = "read"
    /\ watcher.faults < MaxFaults
    /\ tailers' = [tailers EXCEPT ![p].pc = "open", ![p].reader = NoReader]
    /\ watcher' = Faulted("read")
    /\ UNCHANGED <<RetryFrame, CounterFrame, file, handed, lastSeek>>

\* The tailer of a file that stays in place, with finitely many failures.
NextRetry ==
    \/ \E l \in {Line("ws", NoEvent), Line("object", TestTrace)} : AppendLine(TraceFile1, l)
    \/ OpenOk(TraceFile1)
    \/ OpenFailCounted(TraceFile1)
    \/ SeekOk(TraceFile1)
    \/ SeekFailCounted(TraceFile1)
    \/ ReadLine(TraceFile1)
    \/ ReadEof(TraceFile1)
    \/ ReadFailCounted(TraceFile1)
    \/ HandleLine(TraceFile1)

\* the scheduler runs a task that can take a step of its loop, and a call that
\* can succeed does so unless it fails
RetrySpec ==
    /\ InitRetry
    /\ [][NextRetry]_vars
    /\ WF_vars(OpenOk(TraceFile1))
    /\ WF_vars(SeekOk(TraceFile1))
    /\ WF_vars(ReadLine(TraceFile1))
    /\ WF_vars(HandleLine(TraceFile1))

\* the database truncates a trace file in place; a reader keeps its offset
Truncate(p) ==
    /\ p \in present
    /\ file[p] # <<>>
    /\ file' = [file EXCEPT ![p] = <<>>]
    /\ UNCHANGED <<present, tailed, spawned, tailers, gone, relisted, handed, lastSeek,
                   CounterFrame, RegistryFrame>>

\* The tailer of a file that is truncated, moved away or deleted, and created
\* again, under it.
NextRotate ==
    \/ NextRetry
    \/ Truncate(TraceFile1)
    \/ RemoveFile(TraceFile1)
    \/ CreateFile(TraceFile1)

RotateSpec == InitRetry /\ [][NextRotate]_vars

\* ------------------------------------------- a line written in two appends
\* The database writes the text of an object without its terminator ("head")
\* and the rest of the line later. A chunk of the file is what one read_line
\* returns: tokio's read_line returns at the terminator or at the end of the
\* file, so it returns the bytes of an unterminated last line as they are.
Pending(p) == file[p] # <<>> /\ file[p][Len(file[p])].kind = "head"

\* the reader of p is past the first k chunks of the file
ReaderPast(p, k) == tailers[p].reader.open /\ tailers[p].reader.offset >= k

\* the database appends a complete line
AppendComplete(p, l) == ~Pending(p) /\ AppendLine(p, l)

\* the database appends the first part of a line, without terminator
AppendHead(p, ev) == ~Pending(p) /\ AppendLine(p, Line("head", ev))

\* the database appends the rest of the line and its terminator: one line with
\* the first part for a reader that is not past that part, else the next chunk
AppendTail(p) ==
    /\ Pending(p)
    /\ file' = [file EXCEPT ![p] =
                  IF ReaderPast(p, Len(file[p]))
                  THEN Append(@, Line("tail", file[p][Len(file[p])].ev))
                  ELSE [@ EXCEPT ![Len(file[p])] = Line("object", file[p][Len(file[p])].ev)]]
    /\ UNCHANGED <<present, tailed, spawned, tailers, gone, relisted, handed, lastSeek,
                   CounterFrame, RegistryFrame>>

NextPartial ==
    \/ \E l \in {Line("garbage", NoEvent), Line("object", TestTrace)} :
          AppendComplete(TraceFile1, l)
    \/ AppendHead(TraceFile1, TestTrace)
    \/ AppendTail(TraceFile1)
    \/ OpenOk(TraceFile1)
    \/ SeekOk(TraceFile1)
    \/ ReadLine(TraceFile1)
    \/ ReadEof(TraceFile1)
    \/ ReadFail(TraceFile1)
    \/ HandleLine(TraceFile1)

PartialSpec == InitRetry /\ [][NextPartial]_vars

\* ------------------------------------------------------ from_env, directly
\* the values the variables of the environment may have
EnvValues ==
    [key \in {"LISTEN_ADDR", "LOG_DIR", "TRACE_LOG_FILE", "LOG_POLL_INTERVAL_SECS"} |->
        CASE key = "LISTEN_ADDR" ->
                {Unset, NotUnicode, Set("127.0.0.1:1234"), Set("localhost"), Set("")}
          [] key = "LOG_DIR" -> {Unset, NotUnicode, Set("/tmp/fdb")}
          [] key = "TRACE_LOG_FILE" -> {Unset, NotUnicode, Set("/tmp/tracing.log")}
          [] OTHER -> {Unset, NotUnicode, Set("5"), Set("0.5"), Set("abc"), Set(""),
                       Set("-1"), Set("inf"), Set("NaN")}]

InitEnv ==
    /\ present = {}
    /\ tailed = {}
    /\ spawned = [n \in Names |-> 0]
    /\ tailers = [n \in Names |-> NoTailer]
    /\ file = [n \in Names |-> <<>>]
    /\ gone = {}
    /\ relisted = {}
    /\ handed = [n \in Names |-> <<>>]
    /\ lastSeek = [n \in Names |-> -1]
    /\ processed_events = 0
    /\ parse_errors = 0
    /\ record_errors = 0
    /\ metrics = <<>>
    /\ inst = EmptyInst
    /\ event = NoEvent
    /\ result = Ok
    /\ calls = <<>>
    /\ records = 0
    /\ samples = <<>>
    /\ interp = NoInterp
    /\ config = NoConfig
    /\ watcher = Running
    /\ \E vars_of_env \in [DOMAIN EnvValues -> UNION {EnvValues[key] : key \in DOMAIN EnvValues}] :
          /\ \A key \in DOMAIN EnvValues : vars_of_env[key] \in EnvValues[key]
          /\ app = [NoApp EXCEPT !.env = vars_of_env]
    /\ recording = NoRecording

\* a call of AppConfig::from_env()
FromEnv ==
    /\ app.kind = "none"
    /\ app' = from_env(app)
    /\ UNCHANGED <<present, tailed, spawned, tailers, file, gone, relisted, handed,
                   lastSeek, metrics, processed_events, parse_errors, record_errors,
                   inst, event, result, calls, records, samples, interp, config, watcher,
                   recording>>

NextEnv == FromEnv

SpecEnv == InitEnv /\ [][NextEnv]_vars

\* ----------------------------------------- the bucket list, loop step by loop step
\* A key `LessThan<x>` of an event is given by the f64 its suffix parses to;
\* two keys of different values are two fields of the event.
BucketKeys ==
    {F(0), F(2), [n |-> 5, d |-> 2], F(8), F((u64_MAX + 1) \div 2), F(u64_MAX),
     F(2 * u64_MAX)}
BucketCounts == {1, 2}
BucketFields ==
    UNION {[keys -> BucketCounts] : keys \in {ks \in SUBSET BucketKeys : Cardinality(ks) <= MaxFields}}

\* record, after the guards on Type, Group, Op, Unit and TotalCount, at
\* `let mut hist: BTreeMap<u64, u64> = BTreeMap::new();`
HistStart(unit, fields) ==
    [pc |-> "insert", unit |-> unit, fields |-> fields, todo |-> DOMAIN fields,
     hist |-> EmptyMap, hist_entries |-> <<>>, buckets |-> <<>>, cumulative |-> 0,
     expected_upper |-> 0, broke |-> FALSE, previous |-> None, gaps |-> 0]

InitHist ==
    /\ present = {IgnoredLog}
    /\ tailed = {}
    /\ spawned = [n \in Names |-> 0]
    /\ tailers = [n \in Names |-> NoTailer]
    /\ file = [n \in Names |-> <<>>]
    /\ gone = {}
    /\ relisted = {}
    /\ handed = [n \in Names |-> <<>>]
    /\ lastSeek = [n \in Names |-> -1]
    /\ processed_events = 0
    /\ parse_errors = 0
    /\ record_errors = 0
    /\ metrics = <<>>
    /\ inst = EmptyInst
    /\ event = NoEvent
    /\ result = Ok
    /\ calls = <<>>
    /\ records = 0
    /\ samples = <<>>
    /\ \E unit \in HistogramUnits : \E fields \in BucketFields :
           interp = HistStart(unit, fields)
    /\ config = NoConfig
    /\ watcher = Running
    /\ app = NoApp
    /\ recording = NoRecording

HistFrame ==
    <<present, tailed, spawned, tailers, file, gone, relisted, handed, lastSeek,
      metrics, processed_events, parse_errors, record_errors, inst, event, result,
      calls, records, samples, config, watcher, app, recording>>

\* one round of `for (k, v) in trace_event`: the fields of the event come in
\* the order of its HashMap, which is any order; BTreeMap::insert replaces the
\* count of an upper bound that is already in `hist`
InsertField(k) ==
    /\ interp.pc = "insert"
    /\ k \in interp.todo
    /\ interp' = [interp EXCEPT
          !.todo = @ \ {k},
          !.hist = [u \in DOMAIN @ \cup {convert_bucket_upper(interp.unit, k)} |->
                       IF u = convert_bucket_upper(interp.unit, k) THEN interp.fields[k]
                       ELSE @[u]]]
    /\ UNCHANGED HistFrame

\* `if hist.is_empty() { return Ok(()); }`
HistEmpty ==
    /\ interp.pc = "insert"
    /\ interp.todo = {}
    /\ DOMAIN interp.hist = {}
    /\ interp' = [interp EXCEPT !.pc = "done"]
    /\ UNCHANGED HistFrame

\* `hist_entries` collected, `expected_upper` set to the first upper bound
StartWalk ==
    /\ interp.pc = "insert"
    /\ interp.todo = {}
    /\ DOMAIN interp.hist # {}
    /\ interp' = [interp EXCEPT
          !.pc = "walk",
          !.hist_entries = hist_iter(interp.hist),
          !.expected_upper = hist_iter(interp.hist)[1][1]]
    /\ UNCHANGED HistFrame

\* one round of `while expected_upper < upper_bound`
PushGap ==
    /\ interp.pc = "walk"
    /\ interp.hist_entries # <<>>
    /\ ~interp.broke
    /\ interp.expected_upper < Head(interp.hist_entries)[1]
    /\ interp' = [interp EXCEPT
          !.buckets = Append(@, GapBucket(interp.expected_upper, interp.cumulative)),
          !.expected_upper = saturating_mul(@, 2),
          !.broke = LoopBreaks(saturating_mul(interp.expected_upper, 2)),
          !.gaps = @ + 1]
    /\ UNCHANGED HistFrame

\* the rest of a round of `for (upper_bound, count) in hist_entries`, once the
\* while loop is left
PushEmitted ==
    /\ interp.pc = "walk"
    /\ interp.hist_entries # <<>>
    /\ interp.broke \/ ~(interp.expected_upper < Head(interp.hist_entries)[1])
    /\ LET upper_bound == Head(interp.hist_entries)[1]
           count == Head(interp.hist_entries)[2]
       IN interp' = [interp EXCEPT
             !.buckets = Append(@, EmittedBucket(upper_bound, count, interp.cumulative)),
             !.cumulative = @ + count,
             !.expected_upper = ExpectedAfter(upper_bound),
             !.hist_entries = Tail(@),
             !.broke = FALSE,
             !.previous = Some(upper_bound),
             !.gaps = 0]
    /\ UNCHANGED HistFrame

\* the for loop is over: `buckets` goes to the interpolator
EndWalk ==
    /\ interp.pc = "walk"
    /\ interp.hist_entries = <<>>
    /\ interp' = [interp EXCEPT !.pc = "done"]
    /\ UNCHANGED HistFrame

NextHist ==
    \/ \E k \in BucketKeys : InsertField(k)
    \/ HistEmpty
    \/ StartWalk
    \/ PushGap
    \/ PushEmitted
    \/ EndWalk

HistSpec == InitHist /\ [][NextHist]_vars /\ WF_vars(NextHist)

\* ------------------------------- record calls of two tail tasks, step by step
\* the label sequences of the calls: two orders of one label set, and another set
ConcLabels ==
    { <<KeyValue("machine", "m1"), KeyValue("Roles", "storage")>>,
      <<KeyValue("Roles", "storage"), KeyValue("machine", "m1")>>,
      <<KeyValue("machine", "m2")>> }
ConcTimes == {"100", "116"}

InitConc ==
    /\ present = {IgnoredLog}
    /\ tailed = {}
    /\ spawned = [n \in Names |-> 0]
    /\ tailers = [n \in Names |-> NoTailer]
    /\ file = [n \in Names |-> <<>>]
    /\ gone = {}
    /\ relisted = {}
    /\ handed = [n \in Names |-> <<>>]
    /\ lastSeek = [n \in Names |-> -1]
    /\ processed_events = 0
    /\ parse_errors = 0
    /\ record_errors = 0
    /\ metrics \in {<<r>> : r \in SmoothingRecorders}
    /\ inst = EmptyInst
    /\ event = NoEvent
    /\ result = Ok
    /\ calls = <<>>
    /\ records = 0
    /\ samples = <<>>
    /\ interp = NoInterp
    /\ config = NoConfig
    /\ watcher = Running
    /\ app = NoApp
    /\ recording = NoRecording

ConcFrame ==
    <<present, tailed, spawned, tailers, file, gone, relisted, handed, lastSeek,
      metrics, processed_events, parse_errors, record_errors, event, result, calls,
      samples, interp, config, watcher, app>>

\* Mutex::lock returns when no task holds the mutex; a lock that always returns
MutexIgnored(mutex) == TRUE
MutexFree(mutex) == mutex = None

\* `window.iter().map(|s| s.value).sum::<f64>() / count`, `sample` for no window
MeanOf(window, sample) ==
    IF Len(window) = 0 THEN sample
    ELSE [n |-> SumValues(window).n, d |-> SumValues(window).d * Len(window)]

\* record up to `self.samples.lock()`: the Type matches, the value and the
\* Time parse, the key of the labels is built
EnterRecord(t, time, v, labels) ==
    /\ recording.task[t].pc = "idle"
    /\ records < MaxCalls
    /\ records' = records + 1
    /\ recording' = [recording EXCEPT !.task[t] =
          [pc |-> "lock", time |-> Unwrap(parse_f64(time)),
           sample |-> SampleOf(metrics[1], v), labels |-> labels, averaged |-> F(0),
           at |-> 0]]
    /\ UNCHANGED <<inst, ConcFrame>>

\* `.lock().expect(..)`: the task waits until the mutex is free
Lock(t) ==
    /\ recording.task[t].pc = "lock"
    /\ MutexFree(recording.mutex)
    /\ recording' = [recording EXCEPT
          !.mutex = Some(t),
          !.task[t].pc = "push",
          !.task[t].at = Len(recording.blocks) + 1,
          !.blocks = Append(@, [time |-> recording.task[t].time,
                                sample |-> recording.task[t].sample,
                                labels |-> recording.task[t].labels,
                                averaged |-> None])]
    /\ UNCHANGED <<inst, records, ConcFrame>>

\* `samples.entry(key).or_insert_with(VecDeque::new)` and `window.push_back(..)`
PushBack(t) ==
    /\ recording.task[t].pc = "push"
    /\ LET call == recording.task[t]
           key == <<1, from_labels(call.labels)>>
       IN inst' = [inst EXCEPT !.windows =
              Put(@, key, Append(GetOr(inst.windows, key, <<>>),
                                 [time |-> call.time, value |-> call.sample]))]
    /\ recording' = [recording EXCEPT !.task[t].pc = "evict"]
    /\ UNCHANGED <<records, ConcFrame>>

\* the eviction loop and the mean, the value of the locked block
EvictAndMean(t) ==
    /\ recording.task[t].pc = "evict"
    /\ LET call == recording.task[t]
           key == <<1, from_labels(call.labels)>>
           window == Evict(GetOr(inst.windows, key, <<>>), call.time)
       IN /\ inst' = [inst EXCEPT !.windows = Put(@, key, window)]
          /\ recording' = [recording EXCEPT
                !.task[t].pc = "unlock",
                !.task[t].averaged = MeanOf(window, call.sample),
                !.blocks[call.at].averaged = Some(MeanOf(window, call.sample))]
    /\ UNCHANGED <<records, ConcFrame>>

\* the end of the block: the MutexGuard is dropped
Unlock(t) ==
    /\ recording.task[t].pc = "unlock"
    /\ recording' = [recording EXCEPT !.mutex = None, !.task[t].pc = "gauge"]
    /\ UNCHANGED <<inst, records, ConcFrame>>

\* `self.gauge_impl.gauge.record(averaged, labels)`, and record returns: the
\* tail task goes back to its reads and sleeps
WriteGauge(t) ==
    /\ recording.task[t].pc = "gauge"
    /\ inst' = GaugeRecord(inst, 1, recording.task[t].averaged, recording.task[t].labels)
    /\ recording' = [recording EXCEPT !.task[t].pc = "idle"]
    /\ UNCHANGED <<records, ConcFrame>>

NextConc ==
    \E t \in Tasks :
        \/ \E time \in ConcTimes, v \in SampleValues, labels \in ConcLabels :
              EnterRecord(t, time, v, labels)
        \/ Lock(t)
        \/ PushBack(t)
        \/ EvictAndMean(t)
        \/ Unlock(t)
        \/ WriteGauge(t)

ConcSpec == InitConc /\ [][NextConc]_vars

\* =================================================================== claims
Range(seq) == {seq[k] : k \in DOMAIN seq}
Count(seq, x) == Cardinality({k \in DOMAIN seq : seq[k] = x})
Last(seq) == seq[Len(seq)]
Rejected == {"parse", "record"}

\* what a line of a file is to handle_log_line: "blank" (skipped), "parse"
\* (not a JSON object), "record" (the registry rejects it) or "ok"
LineClass(l) ==
    IF is_empty(trim(l)) THEN "blank"
    ELSE IF ~from_str(trim(l)).ok THEN "parse"
    ELSE IF LogMetricsRecord(metrics, from_str(trim(l)).v, EmptyInst).res.ok THEN "ok"
    ELSE "record"

\* number of handle_log_line calls of p's tailer on lines of class c
HandledOf(p, c) ==
    Cardinality({k \in DOMAIN handed[p] : LineClass(file[p][handed[p][k]]) = c})
Handled(c) == HandledOf(TraceFile1, c) + HandledOf(TraceFile2, c)

\* C1: for every path at most one tail task is ever spawned, a path has a
\* tailer exactly when it was inserted into the tailed set, and a path that
\* left the listing stays in the tailed set (no entry is ever removed), so
\* its reappearance spawns nothing.
C1_OneTailerPerPath ==
    /\ \A n \in Names : spawned[n] <= 1 /\ (n \in tailed <=> spawned[n] = 1)
    /\ gone \subseteq tailed
    /\ \A n \in Names : ~should_tail_file(n) => spawned[n] = 0

\* a tailed file disappeared, reappeared and was listed again by a poll
C1_Witness ==
    /\ TraceFile1 \in relisted
    /\ TraceFile1 \in present
    /\ spawned[TraceFile1] = 1

\* C2 as stated: no line appended after a successful seek-to-end is lost, also
\* across read errors; so when a reopened reader seeks to the end of the file,
\* every non-blank line appended since the previous successful seek has
\* already been handed to handle_log_line.
C2_NoLineLost ==
    [][\A i \in 1..MaxLines :
          (/\ lastSeek[TraceFile1] >= 0
           /\ lastSeek[TraceFile1] < i
           /\ i <= lastSeek'[TraceFile1]
           /\ LineClass(file[TraceFile1][i]) # "blank")
          => i \in Range(handed[TraceFile1])]_vars

\* a complete non-blank line appended after the latest successful seek-to-end
\* of a tailer that is in its read loop, and not handed yet
Unread(i) ==
    /\ tailers[TraceFile1].pc \in {"read", "handle"}
    /\ lastSeek[TraceFile1] < i
    /\ i <= Len(file[TraceFile1])
    /\ LineClass(file[TraceFile1][i]) # "blank"
    /\ i \notin Range(handed[TraceFile1])

\* C2, amended: a complete non-blank line appended after the latest successful
\* seek-to-end of a tailer in its read loop is eventually handed to
\* handle_log_line, unless a read error occurs first (the tailer is then back
\* at the top of its outer loop, to reopen and seek to the end again).
C2_HandedUnlessReadError ==
    \A i \in 1..MaxLines :
        Unread(i) ~> (i \in Range(handed[TraceFile1]) \/ tailers[TraceFile1].pc = "open")

\* a line appended after the seek was handed, with an older line left behind it
C2_Witness ==
    /\ lastSeek[TraceFile1] >= 1
    /\ handed[TraceFile1] # <<>>
    /\ Last(handed[TraceFile1]) > lastSeek[TraceFile1]
    /\ Last(handed[TraceFile1]) = Len(file[TraceFile1])

\* C3: every line of an append-only file is handed to handle_log_line at most
\* once by its tailer, whatever reads, waits, failures and reopens happen.
C3_AtMostOnce ==
    \A p \in Paths : \A i \in 1..MaxLines : Count(handed[p], i) <= 1

\* a line was handed, the tailer reopened and sought to the end behind it, and
\* the next line was handed by the new reader
C3_Witness ==
    \E p \in Paths :
        /\ Len(handed[p]) = 2
        /\ lastSeek[p] = handed[p][1]

\* C4: a line that is in the file at a successful seek-to-end is never handed
\* to handle_log_line afterwards.
C4_NoReplay ==
    [][\A p \in Paths : \A i \in 1..MaxLines :
          i <= lastSeek[p] => Count(handed'[p], i) = Count(handed[p], i)]_vars

\* the tailer sought past a non-blank line, never handed it, and handed a later one
C4_Witness ==
    \E p \in Paths :
        /\ lastSeek[p] >= 1
        /\ LineClass(file[p][1]) # "blank"
        /\ 1 \notin Range(handed[p])
        /\ handed[p] # <<>>

\* C5: each non-blank line read by a tailer increments exactly one of the three
\* counters by one, chosen by the line's class, and a blank line none; so the
\* three counters count the handled lines by class and add up to their number.
C5_OneCounterPerLine ==
    /\ processed_events = Handled("ok")
    /\ parse_errors = Handled("parse")
    /\ record_errors = Handled("record")
    /\ Handled("blank") = 0
    /\ processed_events + parse_errors + record_errors
          = Len(handed[TraceFile1]) + Len(handed[TraceFile2])

\* one tailer read a blank line and went on, the other one handled a line
C5_Witness ==
    /\ tailers[TraceFile1].pc = "read"
    /\ tailers[TraceFile1].reader.offset = 1
    /\ lastSeek[TraceFile1] = 0
    /\ Len(file[TraceFile1]) = 1
    /\ LineClass(file[TraceFile1][1]) = "blank"
    /\ Len(handed[TraceFile2]) = 1
    /\ processed_events + parse_errors + record_errors = 1

\* C6: handing a line that fails to parse or that the registry rejects leaves
\* the tailer in its inner read loop, on the same reader, just past that line;
\* and a read in that loop returns the line that follows the reader's offset.
C6_ErrorKeepsTailer ==
    [][\A p \in Paths :
          /\ (/\ handed'[p] # handed[p]
              /\ LineClass(file[p][Last(handed'[p])]) \in Rejected)
             => /\ tailers[p].reader.open
                /\ tailers'[p].pc = "read"
                /\ tailers'[p].reader = tailers[p].reader
                /\ tailers'[p].reader.offset = Last(handed'[p])
          /\ (tailers[p].pc = "read" /\ tailers'[p].pc = "handle")
             => /\ tailers'[p].reader.open
                /\ tailers'[p].reader.offset = tailers[p].reader.offset + 1
                /\ tailers'[p].line = file[p][tailers'[p].reader.offset]]_vars

\* a rejected line and the line after it were handed by the same reader
C6_Witness ==
    \E p \in Paths :
        /\ Len(handed[p]) = 2
        /\ lastSeek[p] < handed[p][1]
        /\ LineClass(file[p][handed[p][1]]) \in Rejected
        /\ handed[p][2] = handed[p][1] + 1
        /\ LineClass(file[p][handed[p][2]]) = "ok"
        /\ processed_events = 1

\* C7: the lines of one file are handed to handle_log_line (and so to the
\* registry) in file order: each call is on a later line than the call before.
C7_InFileOrder ==
    \A p \in Paths : \A j, k \in DOMAIN handed[p] :
        j < k => handed[p][j] < handed[p][k]

\* two lines of one file were handed, both accepted by the registry
C7_Witness ==
    \E p \in Paths :
        /\ Len(handed[p]) >= 2
        /\ processed_events >= 2

\* C8: for an event without a string Machine, LogMetrics::record returns the
\* error that names Machine, invokes no recorder and touches no instrument.
C8_MachineRequired ==
    [][(records' = records + 1 /\ ~IsSome(get_str(event', "Machine")))
          => /\ result' = Err("Missing or invalid Machine field")
             /\ calls' = <<>>
             /\ inst' = inst
             /\ record_errors' = record_errors + 1]_vars

\* the registry was given an event whose Machine is a number
C8_Witness ==
    /\ records > 0
    /\ event["Machine"] = Num("1")
    /\ event["Severity"] = Str("10")
    /\ ~result.ok
    /\ calls = <<>>

\* C9 as stated: for every event with a Machine, every recorder of the
\* registry is invoked, in registry order, also after a recorder's error.
C9_NoShortCircuit ==
    (records > 0 /\ IsSome(get_str(event, "Machine")))
        => calls = [i \in 1..Len(metrics) |-> i]

\* the event's Type is a string that no configured gauge is bound to
TypeUnmatched(ms, ev) ==
    /\ IsSome(get_str(ev, "Type"))
    /\ \A i \in DOMAIN ms :
          /\ ms[i].kind \in {"Simple", "TotalCounter", "RateCounter", "ElapsedRate"}
                => ms[i].trace_type # Unwrap(get_str(ev, "Type"))
          /\ ms[i].kind = "Histogram" => Unwrap(get_str(ev, "Type")) # "Histogram"

\* the event's Severity is a string that parses as an unsigned integer
SeverityParses(ev) ==
    /\ IsSome(get_str(ev, "Severity"))
    /\ IsSome(parse_u64(Unwrap(get_str(ev, "Severity"))))

OnlyProcessedAdvances ==
    /\ result'.ok
    /\ processed_events' = processed_events + 1
    /\ parse_errors' = parse_errors
    /\ record_errors' = record_errors

\* C10 as stated: an event with Machine and Type whose Type matches no
\* configured recorder makes the registry return success and advances the
\* processed-events counter only.
C10_UnmatchedIsProcessed ==
    [][(/\ records' = records + 1
        /\ IsSome(get_str(event', "Machine"))
        /\ TypeUnmatched(metrics, event'))
          => OnlyProcessedAdvances]_vars

\* C10, amended: the same for an event that also has a Severity string that
\* parses as an unsigned integer.
C10_UnmatchedWithSeverityIsProcessed ==
    [][(/\ records' = records + 1
        /\ IsSome(get_str(event', "Machine"))
        /\ TypeUnmatched(metrics, event')
        /\ SeverityParses(event'))
          => OnlyProcessedAdvances]_vars

\* a registry with configured gauges was given such an event and accepted it
C10_Witness ==
    /\ records > 0
    /\ Len(metrics) > 4
    /\ IsSome(get_str(event, "Machine"))
    /\ TypeUnmatched(metrics, event)
    /\ SeverityParses(event)
    /\ result.ok
    /\ calls = [i \in 1..Len(metrics) |-> i]
    /\ processed_events = records

\* the event's Type (for a histogram recorder: Type, Group or Op) is a string
\* other than the one the recorder is configured for
TypeMismatch(r, ev) ==
    /\ IsSome(get_str(ev, "Type"))
    /\ IF r.kind = "Histogram"
       THEN \/ Unwrap(get_str(ev, "Type")) # "Histogram"
            \/ /\ IsSome(get_str(ev, "Group"))
               /\ Unwrap(get_str(ev, "Group")) # r.group
            \/ /\ get_str(ev, "Group") = Some(r.group)
               /\ IsSome(get_str(ev, "Op"))
               /\ Unwrap(get_str(ev, "Op")) # r.op
       ELSE Unwrap(get_str(ev, "Type")) # MatchingType(r)

Matches(r, ev) ==
    /\ get_str(ev, "Type") = Some(MatchingType(r))
    /\ r.kind = "Histogram"
          => /\ get_str(ev, "Group") = Some(r.group)
             /\ get_str(ev, "Op") = Some(r.op)
             /\ IsSome(get_str(ev, "Unit"))
             /\ Unwrap(get_str(ev, "Unit")) \in {"milliseconds", "bytes", "count"}

\* the fields the recorder requires of a matching event
Required(r) ==
    CASE r.kind = "Simple" -> {r.field_name, "Time"}
      [] r.kind = "TotalCounter" -> {r.field_name}
      [] r.kind = "RateCounter" -> {r.field_name, "Time"}
      [] r.kind = "ElapsedRate" -> {r.field_name, "Elapsed", "Time"}
      [] r.kind = "Histogram" -> {"TotalCount"}
      [] r.kind = "SlowTask" -> {"Duration"}
      [] OTHER -> {}

\* the field is missing (or no string), or the number the recorder takes from
\* it does not parse
FieldBad(r, ev, f) ==
    \/ ~IsSome(get_str(ev, f))
    \/ IF f = "TotalCount" THEN ~IsSome(parse_u64(Unwrap(get_str(ev, f))))
       ELSE IF r.kind = "TotalCounter"
            THEN \/ ~IsSome(nth(split_space(Unwrap(get_str(ev, f))), 2))
                 \/ ~IsSome(parse_f64(Unwrap(nth(split_space(Unwrap(get_str(ev, f))), 2))))
       ELSE IF r.kind = "RateCounter" /\ f = r.field_name
            THEN ~IsSome(parse_f64(Unwrap(nth(split_space(Unwrap(get_str(ev, f))), 0))))
       ELSE ~IsSome(parse_f64(Unwrap(get_str(ev, f))))

\* C12: when the event matches the recorder and a required field is missing
\* or does not parse, record returns an error and writes no gauge or counter
\* and pushes or evicts no sample.
C12_BadFieldIsErrorWithoutEffect ==
    [][(/\ records' = records + 1
        /\ Matches(metrics[1], event')
        /\ \E f \in Required(metrics[1]) : FieldBad(metrics[1], event', f))
          => (~result'.ok /\ inst' = inst)]_vars

\* an elapsed-rate recorder with a sample in its window was given a matching
\* event without Elapsed
C12_Witness ==
    /\ records > 0
    /\ metrics[1].kind = "ElapsedRate"
    /\ inst = PrimedInst(metrics[1])
    /\ inst.windows # EmptyMap
    /\ Matches(metrics[1], event)
    /\ event["Elapsed"] = Absent
    /\ result = Err("Missing Elapsed field")

\* sum and arithmetic mean of the samples at the indexes S
RECURSIVE SumAt(_, _)
SumAt(sq, S) ==
    IF S = {} THEN F(0)
    ELSE LET k == CHOOSE x \in S : TRUE
         IN FAdd(sq[k].value, SumAt(sq, S \ {k}))
MeanAt(sq, S) == [n |-> SumAt(sq, S).n, d |-> SumAt(sq, S).d * Cardinality(S)]

FGe(a, b) == ~FGt(b, a)

\* the first k samples arrived with non-decreasing Time
NonDecreasing(k) ==
    \A j \in 1..k : j > 1 => FGe(samples[j].time, samples[j - 1].time)

\* index of a sample with the largest Time among the first k
MaxTimeAt(k) ==
    CHOOSE m \in 1..k : \A j \in 1..k : FGe(samples[m].time, samples[j].time)

\* the samples among the first k whose Time lies in [top - 15, top]
InWindow(k, top) ==
    {j \in 1..k : /\ FGe(samples[j].time, FSub(top, F(ROLLING_WINDOW_SECONDS)))
                  /\ FGe(top, samples[j].time)}

\* C13 as stated: whatever the order of the Time values, the value emitted for
\* a sample is the mean of the samples so far whose time lies in
\* [max_time - 15, max_time].
C13_MeanOfMaxTimeWindow ==
    \A k \in DOMAIN samples :
        FEq(samples[k].emitted,
            MeanAt(samples, InWindow(k, samples[MaxTimeAt(k)].time)))

\* C13, amended: the value emitted for a sample is the mean of a run of the
\* most recent samples in arrival order, ending with that sample and starting
\* with one at most 15 seconds older than it; when the Time values arrived in
\* non-decreasing order, that run is exactly the samples whose time lies in
\* [max_time - 15, max_time].
C13_MeanOfRecentRun ==
    \A k \in DOMAIN samples :
        /\ \E m \in 1..k :
              /\ FGe(F(ROLLING_WINDOW_SECONDS), FSub(samples[k].time, samples[m].time))
              /\ FEq(samples[k].emitted, MeanAt(samples, m..k))
        /\ NonDecreasing(k)
              => FEq(samples[k].emitted,
                     MeanAt(samples, InWindow(k, samples[MaxTimeAt(k)].time)))

\* a late sample was averaged with a sample outside [max_time - 15, max_time]
C13_Witness ==
    /\ Len(samples) = 3
    /\ ~NonDecreasing(3)
    /\ ~FEq(samples[3].emitted,
            MeanAt(samples, InWindow(3, samples[MaxTimeAt(3)].time)))

\* the deque of the label set
Window == GetOr(inst.windows, <<1, from_labels(RecLabels)>>, <<>>)

\* the samples whose Time is at least the latest sample's Time - 15
Kept == {j \in DOMAIN samples :
            FGe(samples[j].time,
                FSub(samples[Len(samples)].time, F(ROLLING_WINDOW_SECONDS)))}

\* C14: for samples arriving with non-decreasing Time, the window holds, in
\* arrival order, exactly the samples whose time is at least t - 15 (t the
\* latest Time), and the emitted value is their mean: a sample exactly 15
\* seconds older is kept, an older one is gone for good.
C14_SortedWindow ==
    (samples # <<>> /\ NonDecreasing(Len(samples)))
        => /\ Len(Window) = Cardinality(Kept)
           /\ \A j \in Kept :
                 LET w == Window[j - (Len(samples) - Len(Window))]
                 IN w.time = samples[j].time /\ w.value = samples[j].value
           /\ Kept = (Len(samples) - Cardinality(Kept) + 1)..Len(samples)
           /\ FEq(samples[Len(samples)].emitted, MeanAt(samples, Kept))

\* samples at 100, 115 and 116: the second was averaged with the first, the
\* third with the second only
C14_Witness ==
    /\ Len(samples) = 3
    /\ samples[1].time = F(100) /\ samples[2].time = F(115) /\ samples[3].time = F(116)
    /\ samples[1].value = F(5) /\ samples[2].value = F(10) /\ samples[3].value = F(10)
    /\ FEq(samples[2].emitted, [n |-> 15, d |-> 2])
    /\ FEq(samples[3].emitted, F(10))
    /\ Len(Window) = 2

\* the whitespace-separated tokens of a counter field (the model's texts hold
\* no whitespace but spaces)
WsTokens(text) == SelectSeq(split_space(text), LAMBDA tok : tok # "")

\* the recorder is a counter gauge and the event matches it and has its field
CounterEvent(r, ev) ==
    /\ r.kind \in {"TotalCounter", "RateCounter"}
    /\ Matches(r, ev)
    /\ IsSome(get_str(ev, r.field_name))

\* C15 as stated: for TotalCounter and RateCounter, a matching event whose
\* counter field holds fewer than three whitespace-separated tokens makes
\* record return an error, with nothing written or pushed.
C15_FewTokensIsError ==
    [][(/\ records' = records + 1
        /\ CounterEvent(metrics[1], event')
        /\ Len(WsTokens(Unwrap(get_str(event', metrics[1].field_name)))) < 3)
          => (~result'.ok /\ inst' = inst)]_vars

\* what the counter gauge does with the token it is to take: TotalCounter sets
\* its gauge to it, RateCounter pushes it as the sample of the event's Time
TakesToken(r, ev, tok, st) ==
    /\ IsSome(parse_f64(tok))
    /\ IF r.kind = "TotalCounter"
       THEN st.gauge[<<1, RecLabels>>] = Unwrap(parse_f64(tok))
       ELSE LET window == st.windows[<<1, from_labels(RecLabels)>>]
            IN window[Len(window)] = [time |-> Unwrap(parse_f64(Unwrap(get_str(ev, "Time")))),
                                      value |-> Unwrap(parse_f64(tok))]

\* the number the recorder is to take parses, and so does Time where it is read
TokensUsable(r, ev, toks) ==
    /\ IsSome(parse_f64(IF r.kind = "TotalCounter" THEN toks[3] ELSE toks[1]))
    /\ r.kind = "RateCounter" => ~FieldBad(r, ev, "Time")

\* C16 as stated: for a matching event whose counter field holds three tokens
\* separated by any runs of whitespace, TotalCounter writes the third token to
\* its gauge and RateCounter uses the first token as its sample.
C16_ThreeTokensAnyWhitespace ==
    [][LET r == metrics[1]
           toks == WsTokens(Unwrap(get_str(event', r.field_name)))
       IN (/\ records' = records + 1
           /\ CounterEvent(r, event')
           /\ Len(toks) = 3
           /\ TokensUsable(r, event', toks))
             => /\ result'.ok
                /\ TakesToken(r, event', IF r.kind = "TotalCounter" THEN toks[3] ELSE toks[1],
                              inst')]_vars

\* C16, amended: the same for three tokens separated by single spaces.
C16_ThreeTokensSingleSpaces ==
    [][LET r == metrics[1]
           toks == split_space(Unwrap(get_str(event', r.field_name)))
       IN (/\ records' = records + 1
           /\ CounterEvent(r, event')
           /\ Len(toks) = 3
           /\ toks = WsTokens(Unwrap(get_str(event', r.field_name)))
           /\ TokensUsable(r, event', toks))
             => /\ result'.ok
                /\ TakesToken(r, event', IF r.kind = "TotalCounter" THEN toks[3] ELSE toks[1],
                              inst')]_vars

\* a rate counter pushed the first token of "1 2 3" behind an older sample
C16_Witness ==
    /\ records > 0
    /\ metrics[1].kind = "RateCounter"
    /\ event = BaseEvent
    /\ result.ok
    /\ Len(inst.windows[<<1, from_labels(RecLabels)>>]) = 2
    /\ TakesToken(metrics[1], event, "1", inst)

\* value of the counter instrument of recorder i, over all label sets
RECURSIVE SumCounter(_, _)
SumCounter(counter, keys) ==
    IF keys = {} THEN 0
    ELSE LET k == CHOOSE x \in keys : TRUE
         IN counter[k] + SumCounter(counter, keys \ {k})
CounterTotal(st, i) == SumCounter(st.counter, {k \in DOMAIN st.counter : k[1] = i})

SevIndexes == {i \in DOMAIN metrics : metrics[i].kind = "Sev"}

\* C17: on every event the registry is given: a severity counter never
\* decreases; if Severity is missing, no string or no unsigned integer, record
\* returns an error and no severity counter changes; if Severity parses to s
\* and the event reaches the four severity counters, the counter of s (if there
\* is one) goes up by exactly one and the others stay.
C17_SeverityCounters ==
    [][records' = records + 1 =>
          /\ \A i \in SevIndexes : CounterTotal(inst', i) >= CounterTotal(inst, i)
          /\ ~SeverityParses(event')
                => /\ ~result'.ok
                   /\ \A i \in SevIndexes : CounterTotal(inst', i) = CounterTotal(inst, i)
          /\ (SeverityParses(event') /\ SevIndexes \subseteq Range(calls'))
                => \A i \in SevIndexes :
                      CounterTotal(inst', i) = CounterTotal(inst, i) +
                          (IF metrics[i].severity
                                = Unwrap(parse_u64(Unwrap(get_str(event', "Severity"))))
                           THEN 1 ELSE 0)]_vars

\* behind two gauges, an event of severity 20 was counted by sev20 alone
C17_Witness ==
    /\ records > 0
    /\ Len(metrics) = 6
    /\ event["Severity"] = Str("20")
    /\ result.ok
    /\ CounterTotal(inst, 4) = 1
    /\ \A i \in {3, 5, 6} : CounterTotal(inst, i) = 0

\* the event is a SlowTask whose Duration exceeds the recorder's threshold
IsSlow(r, ev) ==
    /\ get_str(ev, "Type") = Some("SlowTask")
    /\ IsSome(get_str(ev, "Duration"))
    /\ IsSome(parse_f64(Unwrap(get_str(ev, "Duration"))))
    /\ FGt(Unwrap(parse_f64(Unwrap(get_str(ev, "Duration")))),
           [n |-> r.threshold_ms, d |-> 1000])

ValueLe(a, b) == a.d = b.d /\ a.n <= b.n

\* the first bucket of non-zero count, if there is one
NonEmptyBuckets == {k \in DOMAIN interp.buckets : interp.buckets[k].count # 0}
FirstNonEmpty == CHOOSE k \in NonEmptyBuckets : \A other \in NonEmptyBuckets : k <= other

\* C19 as stated: for p = 0 the interpolator returns the first bucket's lower
\* bound and for p = 1 the last bucket's upper bound, each divided by the unit
\* divisor, also when the first bucket of the list has count zero.
C19_FirstLowerLastUpper ==
    \A k \in DOMAIN interp.outs :
        /\ interp.outs[k].percentile = F(0)
              => interp.outs[k].value
                    = Some(BoundValue(interp.buckets[1].lower_bound, interp.unit_divisor))
        /\ interp.outs[k].percentile = F(1)
              => interp.outs[k].value
                    = Some(BoundValue(interp.buckets[Len(interp.buckets)].upper_bound,
                                      interp.unit_divisor))

\* C19, amended: for p = 0 the interpolator returns the lower bound of the
\* first bucket of non-zero count (the last bucket's upper bound if every
\* bucket is empty), for p = 1 the last bucket's upper bound, each divided by
\* the unit divisor.
C19_FirstNonEmptyLowerLastUpper ==
    \A k \in DOMAIN interp.outs :
        /\ interp.outs[k].percentile = F(0)
              => interp.outs[k].value
                    = Some(BoundValue(IF NonEmptyBuckets = {}
                                      THEN interp.buckets[Len(interp.buckets)].upper_bound
                                      ELSE interp.buckets[FirstNonEmpty].lower_bound,
                                      interp.unit_divisor))
        /\ interp.outs[k].percentile = F(1)
              => interp.outs[k].value
                    = Some(BoundValue(interp.buckets[Len(interp.buckets)].upper_bound,
                                      interp.unit_divisor))

\* milliseconds: p = 0 skipped an empty first bucket, p = 1 gave the last upper bound
C19_Witness ==
    /\ Len(interp.outs) = 2
    /\ interp.unit_divisor = divisor("milliseconds")
    /\ interp.buckets[1].count = 0
    /\ NonEmptyBuckets # {}
    /\ interp.outs[1].percentile = F(0)
    /\ interp.outs[1].value = Some(BoundValue(interp.buckets[FirstNonEmpty].lower_bound,
                                              interp.unit_divisor))
    /\ interp.outs[2].percentile = F(1)
    /\ interp.outs[2].value = Some(BoundValue(interp.buckets[Len(interp.buckets)].upper_bound,
                                              interp.unit_divisor))

\* C20 as stated: for the same bucket list and total_count and p1 < p2, the
\* value returned for p1 is at most the value returned for p2.
C20_MonotonicInP ==
    \A j, k \in DOMAIN interp.outs :
        FGt(interp.outs[k].percentile, interp.outs[j].percentile)
           => ValueLe(Unwrap(interp.outs[j].value), Unwrap(interp.outs[k].value))

\* no bucket starts below the upper bound of the bucket before it
Contiguous(buckets) ==
    \A k \in DOMAIN buckets :
        k > 1 => buckets[k].lower_bound >= buckets[k - 1].upper_bound

\* C20, amended: for p1 < p2 the target bucket index for p1 is not greater
\* than the one for p2, and each result lies within its target bucket's
\* [lower, upper]; if no bucket of the list starts below the upper bound of
\* the bucket before it, the value for p1 is at most the value for p2.
C20_MonotonicOnContiguousBuckets ==
    /\ \A k \in DOMAIN interp.outs :
          LET bucket == interp.buckets[interp.outs[k].index]
          IN /\ ValueLe(BoundValue(bucket.lower_bound, interp.unit_divisor),
                        Unwrap(interp.outs[k].value))
             /\ ValueLe(Unwrap(interp.outs[k].value),
                        BoundValue(bucket.upper_bound, interp.unit_divisor))
    /\ \A j, k \in DOMAIN interp.outs :
          FGt(interp.outs[k].percentile, interp.outs[j].percentile)
             => /\ interp.outs[j].index <= interp.outs[k].index
                /\ Contiguous(interp.buckets)
                      => ValueLe(Unwrap(interp.outs[j].value), Unwrap(interp.outs[k].value))

\* two percentiles met the same bucket of contiguous buckets and got two
\* values strictly inside it, in the order of the percentiles
C20_Witness ==
    /\ Len(interp.outs) = 2
    /\ Contiguous(interp.buckets)
    /\ Len(interp.buckets) > 1
    /\ FGt(interp.outs[2].percentile, interp.outs[1].percentile)
    /\ interp.outs[1].index = interp.outs[2].index
    /\ LET bucket == interp.buckets[interp.outs[1].index]
       IN /\ bucket.lower_bound * Scale < Unwrap(interp.outs[1].value).n
          /\ Unwrap(interp.outs[1].value).n < Unwrap(interp.outs[2].value).n
          /\ Unwrap(interp.outs[2].value).n < bucket.upper_bound * Scale

\* the recorder is a histogram recorder and the event is a Histogram event of
\* its Group and Op
HistogramMatch(r, ev) ==
    /\ r.kind = "Histogram"
    /\ get_str(ev, "Type") = Some("Histogram")
    /\ get_str(ev, "Group") = Some(r.group)
    /\ get_str(ev, "Op") = Some(r.op)

\* the reasons for which the histogram recorder skips an event: a Unit it does
\* not know; TotalCount zero; no LessThan field
SkipsUnit(ev) ==
    IsSome(get_str(ev, "Unit")) /\ Unwrap(get_str(ev, "Unit")) \notin HistogramUnits
SkipsZero(ev) ==
    /\ get_str(ev, "Unit") \in {Some(unit) : unit \in HistogramUnits}
    /\ get_str(ev, "TotalCount") = Some("0")
SkipsNoBucket(ev) ==
    /\ get_str(ev, "Unit") \in {Some(unit) : unit \in HistogramUnits}
    /\ IsSome(get_str(ev, "TotalCount"))
    /\ IsSome(parse_u64(Unwrap(get_str(ev, "TotalCount"))))
    /\ \A k \in LessThanKeys : ~IsSome(get(ev, k))

\* C21: a Histogram event of the recorder's Group and Op with TotalCount zero,
\* with a Unit other than milliseconds, bytes, count, or without any LessThan
\* field makes record return success and leaves the gauge as it was.
C21_SkippedHistogramIsNoOp ==
    [][(/\ records' = records + 1
        /\ HistogramMatch(metrics[1], event')
        /\ SkipsUnit(event') \/ SkipsZero(event') \/ SkipsNoBucket(event'))
          => (result'.ok /\ inst' = inst)]_vars

\* a histogram recorder whose gauge holds a value skipped an event of
\* TotalCount zero that carries buckets
C21_Witness ==
    /\ records > 0
    /\ HistogramMatch(metrics[1], event)
    /\ SkipsZero(event)
    /\ \E k \in LessThanKeys : IsSome(get(event, k))
    /\ result.ok
    /\ inst.gauge # EmptyMap
    /\ inst = PrimedInst(metrics[1])

\* the histogram entries of a table, in the order the loader meets them
RECURSIVE HistogramEntriesOf(_)
HistogramEntriesOf(table) ==
    IF table = <<>> THEN <<>>
    ELSE (IF Head(table).section = "histogram_percentile_gauge" /\ Head(table).is_array
          THEN Head(table).entries ELSE <<>>) \o HistogramEntriesOf(Tail(table))

\* the HistogramPercentile definitions among the gauges
RECURSIVE HistogramGaugesOf(_)
HistogramGaugesOf(gauges) ==
    IF gauges = <<>> THEN <<>>
    ELSE (IF Head(gauges).variant = "HistogramPercentile" THEN <<Head(gauges)>> ELSE <<>>)
            \o HistogramGaugesOf(Tail(gauges))

\* the percentile times 100, trailing zeros trimmed, '.' replaced by '_'
TimesHundred(percentile) ==
    CASE percentile = [n |-> 1, d |-> 2] -> "50"
      [] percentile = [n |-> 99, d |-> 100] -> "99"
      [] percentile = [n |-> 995, d |-> 1000] -> "99_5"
      [] percentile = [n |-> 123, d |-> 1000000] -> "0_0123"
      [] percentile = [n |-> 9, d |-> 10] -> "90"
      [] percentile = F(1) -> "100"
      [] percentile = F(0) -> "0"

\* what the expansion rule gives for an entry: one definition per percentile,
\* in the order of the list, the name verbatim for one percentile
ExpectedExpansion(entry) ==
    [k \in DOMAIN entry.percentiles |->
        [group |-> entry.group, op |-> entry.op, percentile |-> entry.percentiles[k],
         gauge_name |-> IF Len(entry.percentiles) = 1 THEN entry.gauge_name
                        ELSE entry.gauge_name \o "_p" \o TimesHundred(entry.percentiles[k]),
         description |-> entry.description, verbatim |-> Len(entry.percentiles) = 1]]

RECURSIVE ExpectedExpansions(_)
ExpectedExpansions(entries) ==
    IF entries = <<>> THEN <<>>
    ELSE ExpectedExpansion(Head(entries)) \o ExpectedExpansions(Tail(entries))

\* a definition is the one the expansion rule asks for
Expands(gauge, expected) ==
    /\ gauge.group = expected.group
    /\ gauge.op = expected.op
    /\ gauge.percentile = expected.percentile
    /\ gauge.gauge_name = expected.gauge_name
    /\ expected.verbatim => gauge.description = expected.description

\* C22: when the config loads, the histogram definitions are, entry by entry
\* and percentile by percentile in list order, one per percentile with the
\* entry's group and op; an entry with one percentile keeps its gauge_name and
\* description, an entry with several gets the name base_p<percentile times
\* 100, trailing zeros trimmed, '.' as '_'>.
C22_HistogramExpansion ==
    (config.read /\ config.out.ok) =>
        /\ Len(HistogramGaugesOf(config.out.gauges))
             = Len(ExpectedExpansions(HistogramEntriesOf(config.file.table)))
        /\ \A k \in DOMAIN HistogramGaugesOf(config.out.gauges) :
              Expands(HistogramGaugesOf(config.out.gauges)[k],
                      ExpectedExpansions(HistogramEntriesOf(config.file.table))[k])

\* a loaded config with an entry of one percentile and an entry of three, one
\* of the three with a fractional percentage
C22_Witness ==
    /\ config.read /\ config.out.ok
    /\ Len(HistogramEntriesOf(config.file.table)) = 2
    /\ Len(HistogramEntriesOf(config.file.table)[1].percentiles) = 3
    /\ Len(HistogramEntriesOf(config.file.table)[2].percentiles) = 1
    /\ Len(HistogramGaugesOf(config.out.gauges)) = 4
    /\ HistogramGaugesOf(config.out.gauges)[1].gauge_name = "ss_read_latency_seconds_p99_5"
    /\ HistogramGaugesOf(config.out.gauges)[4].gauge_name = "ss_read_latency_seconds"

\* the percentile is a number outside [0, 1]
OutsideUnit(percentile) ==
    percentile.d # 0 /\ (percentile.n < 0 \/ percentile.n > percentile.d)

\* a histogram entry with no percentile or with one outside [0, 1]
BadPercentiles(entry) ==
    entry.percentiles = <<>> \/ \E k \in DOMAIN entry.percentiles :
                                    OutsideUnit(entry.percentiles[k])

\* the file has one of the failure modes
FailureMode(toml_config) ==
    \/ toml_config.state \in {"missing", "malformed"}
    \/ /\ toml_config.state = "table"
       /\ \/ \A k \in DOMAIN toml_config.table :
                toml_config.table[k].section \notin
                    {"simple_gauge", "counter_total_gauge", "counter_rate_gauge",
                     "elapsed_rate_gauge", "histogram_percentile_gauge"}
          \/ \E k \in DOMAIN HistogramEntriesOf(toml_config.table) :
                BadPercentiles(HistogramEntriesOf(toml_config.table)[k])

\* C23: reading a config file that is missing, malformed, without a recognised
\* section, or with a histogram entry whose percentile list is empty or has a
\* percentile outside [0, 1] returns an error and no definition, whatever else
\* the file holds; an empty or whitespace-only file returns success with no
\* definition.
C23_AllOrNothing ==
    config.read =>
        /\ FailureMode(config.file) => (~config.out.ok /\ config.out.gauges = <<>>)
        /\ config.file.state \in {"empty", "whitespace"} =>
              (config.out.ok /\ config.out.gauges = <<>>)
        /\ ~config.out.ok => config.out.gauges = <<>>

\* a table with a valid simple_gauge section and then a histogram section
\* whose second entry has a percentile above 1, read with an error
C23_Witness ==
    /\ config.read /\ ~config.out.ok /\ config.out.gauges = <<>>
    /\ config.file.state = "table" /\ Len(config.file.table) = 2
    /\ config.file.table[1].section = "simple_gauge"
    /\ config.file.table[1].is_array
    /\ Len(config.file.table[1].entries) = 1 /\ config.file.table[1].entries[1].complete
    /\ Len(HistogramEntriesOf(config.file.table)) = 2
    /\ ~BadPercentiles(HistogramEntriesOf(config.file.table)[1])
    /\ \E k \in DOMAIN HistogramEntriesOf(config.file.table)[2].percentiles :
          HistogramEntriesOf(config.file.table)[2].percentiles[k].n
            > HistogramEntriesOf(config.file.table)[2].percentiles[k].d

\* C24: an iteration of the watcher whose listing fails leaves the tailed set,
\* the spawn counts and every tailer as they are, and the watcher in its loop,
\* where the next iteration lists the directory again.
C24_ListingFailureKeepsWatcher ==
    [][(watcher'.failures = watcher.failures + 1) =>
          (/\ tailed' = tailed
           /\ spawned' = spawned
           /\ tailers' = tailers
           /\ watcher'.pc = "run")]_vars

\* a listing failed while a tailer had its file open, and a later listing
\* spawned a tailer for another file
C24_Witness ==
    /\ watcher.failures > 0
    /\ watcher.pc = "run"
    /\ watcher.at_failure = {TraceFile1}
    /\ tailers[TraceFile1].pc = "seek"
    /\ tailed = {TraceFile1, TraceFile2}
    /\ spawned[TraceFile2] = 1

\* no watcher task and no tail task was spawned
NothingSpawned ==
    /\ tailed = {}
    /\ \A n \in Names : spawned[n] = 0 /\ tailers[n] = NoTailer

\* C26: the watcher runs only with the gauge configuration loaded and the log
\* directory in place; before that, and for good once loading the
\* configuration or creating the directory has failed, no task is spawned.
C26_WatcherAfterConfigAndDirectory ==
    /\ watcher.pc = "run" => (config.read /\ config.out.ok /\ watcher.dir)
    /\ watcher.pc # "run" => NothingSpawned
    /\ (config.read /\ ~config.out.ok) => watcher.pc = "failed"
    /\ watcher.pc = "failed" => (~config.out.ok \/ ~watcher.dir)

\* the directory was missing, watch_logs created it, and the watcher it
\* spawned then found a trace file and spawned its tailer
C26_Witness ==
    /\ watcher.pc = "run"
    /\ watcher.created
    /\ config.out.ok
    /\ Len(metrics) = 5
    /\ tailed = {TraceFile1}
    /\ tailers[TraceFile1].pc = "seek"

\* the name is 'trace.', then any characters, then '.json'
MatchesPattern(name) ==
    /\ Len(name) >= 11
    /\ SubSeq(name, 1, 6) = <<"t", "r", "a", "c", "e", ".">>
    /\ SubSeq(name, Len(name) - 4, Len(name)) = <<".", "j", "s", "o", "n">>

\* C27: the tailed set holds only regular files whose name matches
\* trace.*.json; a file named trace.json is never tailed.
C27_OnlyPatternFilesTailed ==
    \A n \in Names : (n \in tailed \/ spawned[n] > 0) =>
                        (MatchesPattern(n) /\ n # TraceJson)

\* the entries that are neither a matching regular file nor trace.json are
\* never tailed
C27_OthersNeverTailed ==
    [][\A n \in tailed' \ tailed :
          /\ n \in present /\ n \notin watcher.subdirs
          /\ MatchesPattern(n) \/ n = TraceJson]_vars

\* a complete non-blank line behind the latest seek-to-end of a tailer in its
\* read loop, when no further failure occurs
AppendedAfterRecovery(i) ==
    /\ watcher.faults = MaxFaults
    /\ tailers[TraceFile1].pc \in {"read", "handle"}
    /\ lastSeek[TraceFile1] < i
    /\ i <= Len(file[TraceFile1])
    /\ LineClass(file[TraceFile1][i]) # "blank"

\* C25: a failed seek or read drops the reader and leads to a new open; a
\* reader enters the read loop freshly opened and at the end of the file; from
\* the top of its outer loop the tailer reaches its read loop whatever (finite
\* number of) failures occur; and a line appended behind that seek, with the
\* failures over, is handed to handle_log_line, and never twice.
C25_RetryUntilReading ==
    /\ [][(watcher'.faults = watcher.faults + 1) =>
             (tailers'[TraceFile1].pc = "open" /\ ~tailers'[TraceFile1].reader.open)]_vars
    /\ [][(tailers[TraceFile1].pc = "seek" /\ tailers'[TraceFile1].pc = "read") =>
             (/\ tailers'[TraceFile1].reader.open
              /\ tailers'[TraceFile1].reader.offset = Len(file[TraceFile1]))]_vars
    /\ (tailers[TraceFile1].pc = "open") ~> (tailers[TraceFile1].pc = "read")
    /\ \A i \in 1..MaxLines :
          AppendedAfterRecovery(i) ~> (Count(handed[TraceFile1], i) = 1)
    /\ [](\A i \in 1..MaxLines : Count(handed[TraceFile1], i) <= 1)

\* after a failed seek and a failed read the tailer is in its read loop on a
\* new reader and has handed the line appended behind its last seek
C25_Witness ==
    /\ watcher.faults = MaxFaults
    /\ watcher.fault_kinds = {"seek", "read"}
    /\ tailers[TraceFile1].pc = "read"
    /\ tailers[TraceFile1].reader.open
    /\ lastSeek[TraceFile1] = 1
    /\ handed[TraceFile1] = <<2>>

\* C28: a spawned tail task is always somewhere in its loops; truncating,
\* moving or deleting its file does not touch it; from its read loop it either
\* stays on its reader at its offset, or reads the line behind that offset, or
\* fails and goes to open the path again, as after every failed open or seek.
C28_TailerNeverEnds ==
    /\ [](tailers[TraceFile1].pc \in {"open", "seek", "read", "handle"})
    /\ [][(file'[TraceFile1] # file[TraceFile1] \/ present' # present) =>
             tailers' = tailers]_vars
    /\ [][tailers[TraceFile1].pc = "read" =>
             \/ tailers'[TraceFile1] = tailers[TraceFile1]
             \/ /\ tailers'[TraceFile1].pc = "handle"
                /\ tailers'[TraceFile1].reader
                     = [open |-> TRUE, offset |-> tailers[TraceFile1].reader.offset + 1]
             \/ /\ tailers'[TraceFile1].pc = "open"
                /\ watcher'.faults = watcher.faults + 1]_vars
    /\ [][(watcher'.faults = watcher.faults + 1) => tailers'[TraceFile1].pc = "open"]_vars

\* the file was truncated under the reader and then removed; the tailer waits
\* at its offset behind the end of what it holds, after an earlier failure
C28_Witness ==
    /\ TraceFile1 \notin present
    /\ tailers[TraceFile1].pc = "read"
    /\ tailers[TraceFile1].reader.open
    /\ tailers[TraceFile1].reader.offset > Len(file[TraceFile1])
    /\ watcher.faults > 0

\* C29: the text handed to the JSON parser is a line whose terminator was
\* read: no part of a line written in two appends is handed on its own, so
\* the parse errors are those of the complete lines that are no JSON objects.
C29_OnlyTerminatedLinesParsed ==
    /\ \A k \in Range(handed[TraceFile1]) :
          file[TraceFile1][k].kind \notin {"head", "tail"}
    /\ parse_errors =
          Cardinality({k \in Range(handed[TraceFile1]) :
                          file[TraceFile1][k].kind = "garbage"})

\* both parts of one line were handed to the parser, each a parse error
C29_TwoFragments ==
    /\ Len(handed[TraceFile1]) = 2
    /\ file[TraceFile1][handed[TraceFile1][1]].kind = "head"
    /\ file[TraceFile1][handed[TraceFile1][2]].kind = "tail"
    /\ parse_errors = 2
    /\ processed_events = 0

\* the label sequence of an event: machine, then Roles if Roles is a string
ExpectedLabels(ev) ==
    IF ev["Roles"].t = "str"
    THEN <<KeyValue("machine", ev["Machine"].s), KeyValue("Roles", ev["Roles"].s)>>
    ELSE <<KeyValue("machine", ev["Machine"].s)>>

\* the keys of an instrument map that the step wrote
Written(before, after) ==
    {key \in DOMAIN after : key \notin DOMAIN before \/ after[key] # before[key]}

\* C30: when the registry takes an event with a string Machine, whatever a
\* recorder writes for it (a counter, a gauge, a window) carries the labels
\* machine=<Machine> and then Roles=<Roles> exactly when Roles is a string,
\* and no other label, the same for every recorder.
C30_SameLabelsForAll ==
    [][(records' = records + 1 /\ event'["Machine"].t = "str") =>
          /\ \A key \in Written(inst.counter, inst'.counter) :
                key[2] = ExpectedLabels(event')
          /\ \A key \in Written(inst.gauge, inst'.gauge) :
                key[2] = ExpectedLabels(event')
          /\ \A key \in Written(inst.windows, inst'.windows) :
                key[2] = from_labels(ExpectedLabels(event'))]_vars

\* a gauge and a severity counter of the registry both wrote for an event
\* with Machine and Roles
C30_Witness ==
    /\ records > 0
    /\ event["Roles"] = Str("storage")
    /\ \E key \in DOMAIN inst.gauge :
          key[1] = 1 /\ key[2] = <<KeyValue("machine", "m1"), KeyValue("Roles", "storage")>>
    /\ \E key \in DOMAIN inst.counter :
          key[1] > 1 /\ key[2] = <<KeyValue("machine", "m1"), KeyValue("Roles", "storage")>>

\* the variable is set to something that is no value of its type
Offending(env, key) ==
    \/ env[key].state = "not_unicode"
    \/ /\ env[key].state = "unicode"
       /\ \/ key = "LISTEN_ADDR" /\ env[key].value \notin {"0.0.0.0:9200", "127.0.0.1:1234"}
          \/ key = "LOG_POLL_INTERVAL_SECS" /\ env[key].value \notin {"5", "0.5"}

\* the value the configuration has for the variable
ConfigValue(a, key) ==
    CASE key = "LISTEN_ADDR" -> a.listen_addr
      [] key = "LOG_DIR" -> a.log_dir
      [] key = "TRACE_LOG_FILE" -> a.trace_log_file
      [] OTHER -> IF a.log_poll_interval = F(5) THEN "5"
                  ELSE IF a.log_poll_interval = [n |-> 1, d |-> 2] THEN "0.5"
                  ELSE IF a.log_poll_interval = F(2) THEN "2.0" ELSE "?"

DefaultValue(key) ==
    CASE key = "LISTEN_ADDR" -> "0.0.0.0:9200"
      [] key = "LOG_DIR" -> "logs"
      [] key = "TRACE_LOG_FILE" -> "logs/tracing.log"
      [] OTHER -> "2.0"

\* C31: from_env returns either a configuration, with the default for each
\* unset variable and the value of each set one, or an error naming a variable
\* that is set to something that is no value of its type; it returns the
\* error whenever there is such a variable, and never panics.
C31_ConfigOrNamedError ==
    app.kind # "none" =>
        /\ app.kind \in {"ok", "err"}
        /\ app.kind = "err" <=> \E key \in DOMAIN app.env : Offending(app.env, key)
        /\ app.kind = "err" => Offending(app.env, app.key)
        /\ app.kind = "ok" =>
              \A key \in DOMAIN app.env :
                 ConfigValue(app, key) = IF app.env[key].state = "unset"
                                         THEN DefaultValue(key) ELSE app.env[key].value

\* from_env panicked on a poll interval of -1 seconds
C31_Panic ==
    /\ app.kind = "panic"
    /\ app.env["LOG_POLL_INTERVAL_SECS"] = Set("-1")
    /\ app.env["LISTEN_ADDR"] = Unset

\* the names should_tail_file accepts
Tailable == {n \in Names : should_tail_file(n)}

\* C32: a file that the watcher would tail and that is in the listing of the
\* log directory from some point on is eventually in the tailed set with a
\* tail task of its own, with finitely many failed listings in between.
C32_PresentFileEventuallyTailed ==
    \A n \in Tailable :
        <>[](n \in read_dir) => <>(n \in tailed /\ spawned[n] = 1 /\ tailers[n].pc = "open")

\* two listings failed with nothing tailed, and a later one spawned the tailer
\* of a trace file
C32_Witness ==
    /\ watcher.pc = "run"
    /\ watcher.failures = MaxFaults
    /\ watcher.at_failure = {}
    /\ TraceFile1 \in read_dir
    /\ tailed = {TraceFile1}
    /\ spawned[TraceFile1] = 1
    /\ tailers[TraceFile1].pc = "open"

\* the LessThan fields of the event the walk started from, and their upper bounds
HasLessThan == interp.pc = "done" /\ DOMAIN interp.fields # {}
UpperOf(k) == convert_bucket_upper(interp.unit, k)
EmittedUppers == {UpperOf(k) : k \in DOMAIN interp.fields}

RECURSIVE SumCounts(_)
SumCounts(fields) ==
    IF DOMAIN fields = {} THEN 0
    ELSE LET k == CHOOSE x \in DOMAIN fields : TRUE
         IN fields[k] + SumCounts([x \in DOMAIN fields \ {k} |-> fields[x]])

RECURSIVE CountsUpTo(_, _)
CountsUpTo(buckets, i) == IF i = 0 THEN 0 ELSE buckets[i].count + CountsUpTo(buckets, i - 1)

StrictlyIncreasing(buckets) ==
    \A i \in 1..(Len(buckets) - 1) : buckets[i].upper_bound < buckets[i + 1].upper_bound
CumulativeSums(buckets) ==
    /\ \A i \in DOMAIN buckets : buckets[i].cumulative_count = CountsUpTo(buckets, i)
    /\ \A i \in 1..(Len(buckets) - 1) :
          buckets[i].cumulative_count <= buckets[i + 1].cumulative_count
GapsDoubled(buckets) ==
    \A i \in DOMAIN buckets :
        buckets[i].upper_bound \notin EmittedUppers =>
            /\ buckets[i].count = 0
            /\ i > 1
            /\ buckets[i].upper_bound = 2 * buckets[i - 1].upper_bound
EmittedOnce(buckets) ==
    \A k \in DOMAIN interp.fields :
        /\ Cardinality({i \in DOMAIN buckets : buckets[i].upper_bound = UpperOf(k)}) = 1
        /\ \E i \in DOMAIN buckets :
              buckets[i].upper_bound = UpperOf(k) /\ buckets[i].count = interp.fields[k]

\* C33: for an event with at least one LessThan field the bucket list is
\* strictly increasing in upper bound, every lower bound is half the upper
\* bound, the cumulative counts are the running sums of the counts, a
\* synthesised bucket has count zero and twice the upper bound of the bucket
\* before it, and every LessThan field has exactly one bucket, with its count
C33_BucketListWellFormed ==
    HasLessThan =>
        /\ StrictlyIncreasing(interp.buckets)
        /\ \A i \in DOMAIN interp.buckets :
              interp.buckets[i].lower_bound = interp.buckets[i].upper_bound \div 2
        /\ CumulativeSums(interp.buckets)
        /\ GapsDoubled(interp.buckets)
        /\ EmittedOnce(interp.buckets)

\* a bucket list with the same upper bound twice: the bucket of LessThan0 and
\* the bucket synthesised after it
C33_RepeatedUpperBound ==
    /\ HasLessThan
    /\ \A k1, k2 \in DOMAIN interp.fields : k1 # k2 => UpperOf(k1) # UpperOf(k2)
    /\ \E i \in 1..(Len(interp.buckets) - 1) :
          interp.buckets[i].upper_bound = interp.buckets[i + 1].upper_bound

\* C39: the cumulative count of the last bucket is the sum of the counts of
\* all LessThan fields of the event
C39_LastCumulativeIsSum ==
    HasLessThan => Last(interp.buckets).cumulative_count = SumCounts(interp.fields)

\* two LessThan keys of one upper bound: the count of one of them is not in
\* the list
C39_CountDropped ==
    /\ HasLessThan
    /\ \E k1, k2 \in DOMAIN interp.fields : k1 # k2 /\ UpperOf(k1) = UpperOf(k2)
    /\ Last(interp.buckets).cumulative_count < SumCounts(interp.fields)

\* the doublings from upper bound a that it takes to reach upper bound b
Doublings(a, b) ==
    IF a = 0 THEN 1
    ELSE CHOOSE k \in 0..WordBits :
             /\ a * 2 ^ k >= b
             /\ \A j \in 0..(k - 1) : a * 2 ^ j < b
GapsBounded ==
    interp.pc = "walk" /\ interp.hist_entries # <<>> =>
        IF interp.previous = None THEN interp.gaps = 0
        ELSE interp.gaps <= Doublings(Unwrap(interp.previous), Head(interp.hist_entries)[1])

\* C40: the walk over the entries of `hist` ends for every set of upper
\* bounds, 0 and u64::MAX among them, and between two entries it synthesises
\* no more buckets than there are doublings from one upper bound to the next
C40_GapLoopTerminates == [](GapsBounded) /\ <>(interp.pc = "done")

\* a walk that ended over the upper bounds 0 and u64::MAX: one bucket was
\* synthesised after 0, and the loop was left
C40_Witness ==
    /\ interp.pc = "done"
    /\ EmittedUppers = {0, u64_MAX}
    /\ Len(interp.buckets) = 3
    /\ interp.buckets[2] = GapBucket(0, interp.buckets[1].cumulative_count)
    /\ interp.buckets[3].upper_bound = u64_MAX

\* bucket k of the list qualifies for percentile p: its count is not zero and
\* its cumulative count is at least p * total_count
Qualifies(k, p) ==
    /\ interp.buckets[k].count # 0
    /\ interp.buckets[k].cumulative_count * p.d >= p.n * interp.total_count
\* a value, a fraction over Scale * unit_divisor, within the bounds of a bucket
ValueInBucket(value, bucket) ==
    /\ value # None
    /\ value[1].d = Scale * interp.unit_divisor
    /\ bucket.lower_bound * Scale <= value[1].n
    /\ value[1].n <= bucket.upper_bound * Scale
BelowOne(out) == out.percentile.n < out.percentile.d

\* C34: for a percentile below 1 the target bucket qualifies and no bucket
\* before it does; when no bucket qualifies the target is the last bucket, and
\* the value returned lies within the bounds of that bucket
C34_FirstQualifyingBucket ==
    \A o \in DOMAIN interp.outs :
        LET out == interp.outs[o]
        IN BelowOne(out) =>
              IF \E k \in DOMAIN interp.buckets : Qualifies(k, out.percentile)
              THEN /\ Qualifies(out.index, out.percentile)
                   /\ \A k \in 1..(out.index - 1) : ~Qualifies(k, out.percentile)
              ELSE /\ out.index = Len(interp.buckets)
                   /\ ValueInBucket(out.value, interp.buckets[out.index])

\* one list, two percentiles: the first is exactly the cumulative fraction of
\* its target, which is not the last bucket; for the second no bucket qualifies
C34_Witness ==
    /\ Len(interp.outs) = 2
    /\ BelowOne(interp.outs[1]) /\ BelowOne(interp.outs[2])
    /\ interp.outs[1].index < Len(interp.buckets)
    /\ interp.buckets[interp.outs[1].index].cumulative_count * interp.outs[1].percentile.d
          = interp.outs[1].percentile.n * interp.total_count
    /\ interp.outs[1].percentile.n > 0
    /\ \A k \in DOMAIN interp.buckets : ~Qualifies(k, interp.outs[2].percentile)
    /\ interp.outs[2].index = Len(interp.buckets)

\* C38: after a record on a smoothing recorder the window of the labels is
\* not empty and ends with the sample just recorded, whatever the order of
\* the Time values: the mean is never the fallback for an empty window
C38_WindowEndsWithSample ==
    samples # <<>> =>
        /\ Window # <<>>
        /\ Last(Window).time = Last(samples).time
        /\ Last(Window).value = Last(samples).value

\* three samples, the last one earlier than the one before it, and an
\* eviction: the window is shorter than the run of samples
C38_Witness ==
    /\ Len(samples) = 3
    /\ FGt(samples[2].time, samples[3].time)
    /\ Len(Window) < 3
    /\ Last(Window).time = samples[3].time

\* the instruments after the first k locked blocks, one whole call after the
\* other in the order the mutex was taken
RECURSIVE Serial(_, _)
Serial(blocks, k) ==
    IF k = 0 THEN EmptyInst
    ELSE Smooth(Serial(blocks, k - 1), 1, blocks[k].labels, blocks[k].time, blocks[k].sample)

\* the tasks between lock() and the drop of the guard
InBlock == {t \in Tasks : recording.task[t].pc \in {"push", "evict", "unlock"}}

\* C36: the locked blocks of concurrent record calls on one smoothing
\* recorder take effect one after the other in the order the mutex was taken:
\* every mean is the mean the serial run of the calls gives, outside a block
\* the windows are those of the serial run (no sample lost or twice in a
\* window), and only a task inside its block holds the mutex, never a task
\* that is back at its reads and sleeps
C36_BlocksSerialised ==
    /\ \A k \in DOMAIN recording.blocks :
          recording.blocks[k].averaged # None =>
              recording.blocks[k].averaged
                 = Some(Serial(recording.blocks, k).gauge[<<1, recording.blocks[k].labels>>])
    /\ InBlock = {} => inst.windows = Serial(recording.blocks, Len(recording.blocks)).windows
    /\ Cardinality(InBlock) <= 1
    /\ \A t \in Tasks : recording.mutex = Some(t) <=> t \in InBlock

\* both calls are over; the second task waited for the mutex while the first
\* was inside its block, and its sample evicted the sample of the first
C36_Witness ==
    /\ Len(recording.blocks) = 2
    /\ \A t \in Tasks : recording.task[t].pc = "idle"
    /\ recording.blocks[1].labels = recording.blocks[2].labels
    /\ FGt(FSub(recording.blocks[2].time, recording.blocks[1].time), F(ROLLING_WINDOW_SECONDS))
    /\ Len(inst.windows[<<1, from_labels(recording.blocks[1].labels)>>]) = 1

\* every call that was started has returned
AllReturned ==
    /\ recording.blocks # <<>>
    /\ \A t \in Tasks : recording.task[t].pc = "idle"
\* the label sequences for which every call on their window gave the labels
\* in that one order
OneSequence ==
    {labels \in ConcLabels :
        /\ \E k \in DOMAIN recording.blocks : recording.blocks[k].labels = labels
        /\ \A k \in DOMAIN recording.blocks :
              from_labels(recording.blocks[k].labels) = from_labels(labels)
                 => recording.blocks[k].labels = labels}

\* C37: once the concurrent record calls on one smoothing recorder for one
\* label set have returned, the gauge of the label set holds the mean of the
\* final contents of its window
C37_GaugeIsMeanOfFinalWindow ==
    AllReturned =>
        \A labels \in OneSequence :
            LET window == inst.windows[<<1, from_labels(labels)>>]
            IN FEq(inst.gauge[<<1, labels>>], MeanOf(window, F(0)))

\* two calls for one label sequence have returned: the task that took the
\* mutex first wrote the gauge last, and the gauge holds its mean, not the
\* mean of the window
C37_StaleGauge ==
    /\ AllReturned
    /\ Len(recording.blocks) = 2
    /\ recording.blocks[1].labels = recording.blocks[2].labels
    /\ inst.gauge[<<1, recording.blocks[1].labels>>] = Unwrap(recording.blocks[1].averaged)
    /\ ~FEq(Unwrap(recording.blocks[1].averaged), Unwrap(recording.blocks[2].averaged))
    /\ FEq(Unwrap(recording.blocks[2].averaged),
           MeanOf(inst.windows[<<1, from_labels(recording.blocks[1].labels)>>], F(0)))

\* label sequences of up to two of three (name, value) pairs, in any order
LabelPairs == {KeyValue("machine", "m1"), KeyValue("machine", "m2"), KeyValue("Roles", "storage")}
LabelSeqs == {<<>>} \cup {<<a>> : a \in LabelPairs} \cup {<<a, b>> : a, b \in LabelPairs}
SamePairs(a, b) == \A e \in LabelPairs : Count(a, e) = Count(b, e)

\* the locked blocks of the calls whose labels have the pairs of `labels`
RECURSIVE BlocksOf(_, _)
BlocksOf(blocks, labels) ==
    IF blocks = <<>> THEN <<>>
    ELSE (IF SamePairs(Head(blocks).labels, labels) THEN <<Head(blocks)>> ELSE <<>>)
            \o BlocksOf(Tail(blocks), labels)

\* C35: the labels of a call and any label sequence have the same key exactly
\* when they hold the same (name, value) pairs, in whatever order; the window of a label set is
\* the window that the calls with those pairs alone produce, so no sample of
\* another label set is in it or in its mean
C35_CanonicalLabelKey ==
    /\ \A k \in DOMAIN recording.blocks : \A b \in LabelSeqs :
          from_labels(recording.blocks[k].labels) = from_labels(b)
             <=> SamePairs(recording.blocks[k].labels, b)
    /\ InBlock = {} =>
          \A labels \in ConcLabels :
              LET own == BlocksOf(recording.blocks, labels)
                  key == <<1, from_labels(labels)>>
              IN GetOr(inst.windows, key, <<>>)
                    = GetOr(Serial(own, Len(own)).windows, key, <<>>)

\* two calls gave the labels of one set in two orders and share a window of
\* two samples
C35_Witness ==
    /\ AllReturned
    /\ Len(recording.blocks) = 2
    /\ recording.blocks[1].labels # recording.blocks[2].labels
    /\ SamePairs(recording.blocks[1].labels, recording.blocks[2].labels)
    /\ Len(inst.windows[<<1, from_labels(recording.blocks[1].labels)>>]) = 2
    /\ DOMAIN inst.windows = {<<1, from_labels(recording.blocks[1].labels)>>}

====
